---- MODULE Spec2Model ----
(***************************************************************************)
(* Client-side request pipeline of the NLWeb demo dashboard: the shared    *)
(* zod contract (shared/schema), the typed fetch client (lib/api) and the  *)
(* QueryInterface, ConfigurationPanel and SchemaDataPanel components with  *)
(* their react-query queries and mutations.  Each panel, the contract and  *)
(* the client have a specification of their own (Spec, SpecConfig,         *)
(* SpecSources, SpecSchema, SpecContract, SpecClient) over one state.      *)
(*                                                                         *)
(* Text is a sequence of characters, so that String.prototype.trim and     *)
(* z.string().min(1) are computed and not assumed.  A JSON object is a     *)
(* function whose domain is the set of keys that are present.  A nullable  *)
(* React state is a sequence of length 0 (null) or 1.                      *)
(***************************************************************************)
EXTENDS Integers, Sequences, FiniteSets, Bags, TLC

\* ------------------------------------------------------------------ bounds
MaxLen == 2      \* longest text typed into the query box
MaxItems == 1    \* longest mainEntity the server answers with
MaxNet == 2      \* number of /ask requests that are in flight together
MaxUrl == 2      \* longest text typed into the URL field of the add-source form
MaxJson == 1     \* longest text typed into the body box of the API testing panel
MaxLogs == 2     \* longest log list GET /logs answers with

\* ------------------------------------------------------------------- text
Whitespace == {" "}
Chars == Whitespace \cup {"a"}
Strs(n) == UNION {[1..k -> Chars] : k \in 0..n}

RECURSIVE trimStart(_)
trimStart(s) ==
  IF s # <<>> /\ Head(s) \in Whitespace THEN trimStart(Tail(s)) ELSE s

RECURSIVE trimEnd(_)
trimEnd(s) ==
  IF s # <<>> /\ s[Len(s)] \in Whitespace
  THEN trimEnd(SubSeq(s, 1, Len(s) - 1))
  ELSE s

\* String.prototype.trim as used by handleSubmit
trim(s) == trimEnd(trimStart(s))

\* JavaScript truthiness of an optional string field of a JSON object
Truthy(obj, key) == key \in DOMAIN obj /\ obj[key] # ""

\* --------------------------------------------------------------- contract
Modes == {"search", "chat"}

\* z.object(shape) without .strict() or .passthrough(): the keys of the
\* input that the shape does not name are left out of the parsed data
strip(obj, keys) == [k \in DOMAIN obj \cap keys |-> obj[k]]

\* queryRequestSchema.safeParse(obj): mode takes its default when the key
\* is absent.
queryRequestSchema(obj) ==
  IF /\ "query" \in DOMAIN obj
     /\ Len(obj.query) >= 1
     /\ ("mode" \in DOMAIN obj => obj.mode \in Modes)
  THEN [success |-> TRUE,
        data |-> strip(obj, {"query", "mode", "prev"}) @@ [mode |-> "search"]]
  ELSE [success |-> FALSE, data |-> obj]

\* the objects handed to the contract layer
QueryRequestInputs ==
  LET Q == {[query |-> q] : q \in Strs(MaxLen)} \cup {<<>>}
      M == {[mode |-> m] : m \in Modes \cup {"browse"}} \cup {<<>>}
      P == {[prev |-> "ctx"], <<>>}
  IN {q @@ m @@ p : q \in Q, m \in M, p \in P}

\* Config.  The temperature is counted in tenths (7 is 0.7), so that the
\* slider's step of 0.1 is a step of 1 and the schema's range 0..1 is 0..10.
Sections == {"openai", "nlweb", "error_handling"}

\* openaiConfigSchema.safeParse(obj)
openaiConfigSchema(obj) ==
  LET data == strip(obj, {"model", "temperature", "max_tokens", "has_api_key"})
              @@ [model |-> "gpt-4", temperature |-> 7, max_tokens |-> 2048]
  IN IF /\ data.temperature >= 0 /\ data.temperature <= 10
        /\ data.max_tokens >= 1 /\ data.max_tokens <= 4000
        /\ "has_api_key" \in DOMAIN obj
     THEN [success |-> TRUE, data |-> data]
     ELSE [success |-> FALSE, data |-> obj]

\* nlwebConfigSchema.safeParse(obj)
nlwebConfigSchema(obj) ==
  [success |-> TRUE,
   data |-> strip(obj, {"server_host", "server_port", "vector_db",
                        "embedding_model", "mcp_enabled"})
            @@ [server_host |-> "0.0.0.0", server_port |-> 5000,
                vector_db |-> "memory",
                embedding_model |-> "text-embedding-ada-002",
                mcp_enabled |-> TRUE]]

\* errorHandlingConfigSchema.safeParse(obj)
errorHandlingConfigSchema(obj) ==
  LET data == strip(obj, {"retry_attempts", "timeout", "backoff_strategy",
                          "enable_fallback"})
              @@ [retry_attempts |-> 3, timeout |-> 30,
                  backoff_strategy |-> "exponential", enable_fallback |-> TRUE]
  IN IF /\ data.retry_attempts >= 1 /\ data.retry_attempts <= 10
        /\ data.timeout >= 5 /\ data.timeout <= 120
        /\ data.backoff_strategy \in {"exponential", "linear", "fixed"}
     THEN [success |-> TRUE, data |-> data]
     ELSE [success |-> FALSE, data |-> obj]

\* the schema of one section of the config
sectionSchema(section, obj) ==
  CASE section = "openai" -> openaiConfigSchema(obj)
    [] section = "nlweb" -> nlwebConfigSchema(obj)
    [] section = "error_handling" -> errorHandlingConfigSchema(obj)

\* configSchema.safeParse(obj): the three sections are required
configSchema(obj) ==
  IF /\ Sections \subseteq DOMAIN obj
     /\ \A s \in Sections : sectionSchema(s, obj[s]).success
  THEN [success |-> TRUE,
        data |-> [s \in Sections |-> sectionSchema(s, obj[s]).data]]
  ELSE [success |-> FALSE, data |-> obj]

\* schemaOrgObjectSchema.safeParse(obj): "@type" is required and
\* .passthrough() keeps every key of the input
schemaOrgObjectSchema(obj) ==
  IF "@type" \in DOMAIN obj
  THEN [success |-> TRUE, data |-> obj]
  ELSE [success |-> FALSE, data |-> obj]

\* text of a URL field
UrlChars == {"a", ":"}
Urls(n) == UNION {[1..k -> UrlChars] : k \in 0..n}

\* z.string().url(), which is new URL(s) not throwing: without a base the
\* text has to start with a scheme, letters up to a colon
isUrl(s) ==
  \E i \in 2..Len(s) : s[i] = ":" /\ \A j \in 1..(i - 1) : s[j] = "a"

\* dataSourceSchema.safeParse(obj)
dataSourceSchema(obj) ==
  IF /\ {"name", "url", "type"} \subseteq DOMAIN obj
     /\ isUrl(obj.url)
     /\ obj.type \in {"schema_org", "rss"}
  THEN [success |-> TRUE,
        data |-> strip(obj, {"name", "url", "type", "description", "status",
                             "object_count", "last_updated", "error"})
                 @@ [status |-> "inactive", object_count |-> 0]]
  ELSE [success |-> FALSE, data |-> obj]

\* ----------------------------------------------------------- typed client
Items == {[type |-> "Restaurant"]}
ItemSeqs == UNION {[1..k -> Items] : k \in 0..MaxItems}
Messages == {"No results found"}

\* values of type SearchResponse (searchResponseSchema): numberOfItems is
\* any number, message is optional
SearchResponses ==
  LET Base == {[type |-> "SearchResultsPage", mainEntity |-> e,
                numberOfItems |-> n] : e \in ItemSeqs, n \in 0..MaxItems}
      Msg == {[message |-> m] : m \in Messages} \cup {<<>>}
  IN {b @@ m : b \in Base, m \in Msg}

\* JSON bodies of non-2xx answers
ErrorBodies ==
  LET E == {[error |-> e] : e \in {"", "bad query"}} \cup {<<>>}
      M == {[message |-> "server down"], <<>>}
  IN {e @@ m : e \in E, m \in M}

\* what fetch() and the body can turn out to be for POST /ask:
\* a rejected fetch, or a response whose body is JSON (<<v>>) or not (<<>>)
FetchOutcomes ==
  {[kind |-> "reject"]}
  \cup {[kind |-> "response", status |-> 500, statusText |-> t, body |-> b] :
          t \in {"", "Internal Server Error"},
          b \in {<<>>} \cup {<<e>> : e \in ErrorBodies}}
  \cup {[kind |-> "response", status |-> 200, statusText |-> "OK", body |-> b] :
          b \in {<<>>} \cup {<<r>> : r \in SearchResponses}}

ApiError(status, message) ==
  [name |-> "ApiError", status |-> status, message |-> message]

\* the TypeError fetch rejects with and the SyntaxError response.json()
\* rejects with carry no status
FetchError == [name |-> "TypeError", message |-> "Failed to fetch"]
JsonError == [name |-> "SyntaxError", message |-> "Unexpected token"]

\* apiRequest: the settled value of the promise for a fetch outcome
apiRequest(o) ==
  IF o.kind = "reject"
  THEN [ok |-> FALSE, error |-> FetchError]
  ELSE IF o.status \notin 200..299
  THEN LET error == IF o.body = <<>> THEN [error |-> o.statusText]
                    ELSE o.body[1]
       IN [ok |-> FALSE,
           error |-> ApiError(o.status,
                       IF Truthy(error, "error") THEN error.error
                       ELSE IF Truthy(error, "message") THEN error.message
                       ELSE "API request failed")]
  ELSE IF o.body = <<>>
  THEN [ok |-> FALSE, error |-> JsonError]
  ELSE [ok |-> TRUE, data |-> o.body[1]]

\* ------------------------------------------------------------------ state
VARIABLES
  activeTab,  \* DemoAgent: the tab whose panel is mounted
  query,      \* QueryInterface: text of the query box
  results,    \* QueryInterface: <<>> (null) or <<SearchResponse>>
  status,     \* queryMutation: "idle", "pending", "success" or "error"
  net,        \* bag of the /ask requests issued and not yet settled;
              \* live: the instance that issued the request is still mounted
  toast,      \* the toast() call of the handler that ran last: <<>> if it
              \* made none, else <<[title, description, variant]>>
  ev,         \* the handler that ran last and what it was given
  vin,        \* contract layer: the object under validation
  vout,       \* contract layer: <<>> or <<result of safeParse>>
  config,     \* ConfigurationPanel: <<>> (null) or <<the config being edited>>
  configData, \* the data of the ["config"] query: <<>> or <<body of GET /config>>
  server,     \* the config the server holds
  cnet,       \* bag of the /config requests issued and not yet settled
  saveStatus, \* updateConfigMutation: "idle", "pending", "success" or "error"
  newSource,  \* SchemaDataPanel: the add-source form
  showAddDialog, \* SchemaDataPanel: the add-source dialog is open
  snet,       \* bag of the /data-sources requests issued and not yet settled
  addStatus,  \* addSourceMutation: "idle", "pending", "success" or "error"
  statsStatus, \* the ["stats"] query: "pending", "success" or "error"
  call,       \* typed client: <<>> or <<the call of apiRequest under way>>
  fetches,    \* typed client: the fetch() calls that call has made
  settled,    \* typed client: <<>> or <<how the promise of that call settled>>
  created,    \* server: <<>> or <<status and object_count of the data source
              \* created last>>
  endpointSel, \* ApiTestingPanel: endpoint, the endpoint selected
  method,     \* ApiTestingPanel: the method selected
  headers,    \* ApiTestingPanel: text of the headers box
  requestBody, \* ApiTestingPanel: text of the body box
  response,   \* ApiTestingPanel: <<>> (null) or <<TestResponse>>
  tnet,       \* bag of the /test requests issued and not yet settled
  testStatus, \* testMutation: "idle", "pending", "success" or "error"
  logsData,   \* the data of the ["logs"] query: <<>> or <<body of GET /logs>>
  levelFilter, \* SystemLogsPanel: the level selected
  sourceFilter, \* SystemLogsPanel: the source selected
  searchTerm, \* SystemLogsPanel: text of the search box
  autoRefresh, \* SystemLogsPanel: the auto-refresh checkbox
  polls,      \* the fetches of the ["health"] and ["logs"] queries under way
  orphans     \* bag of the POST requests not yet settled whose panel has
              \* been unmounted

cvars == <<config, configData, server, cnet, saveStatus>>
svars == <<newSource, showAddDialog, snet, addStatus, statsStatus>>
avars == <<call, fetches, settled>>
tvars == <<endpointSel, method, headers, requestBody, response, tnet, testStatus>>
lvars == <<logsData, levelFilter, sourceFilter, searchTerm, autoRefresh>>
pvars == <<polls, orphans>>
xvars == <<tvars, lvars, pvars>>
\* the state outside the query pipeline and the contract layer
ovars == <<cvars, svars, avars, created, xvars>>
vars == <<activeTab, query, results, status, net, toast, ev, vin, vout, ovars>>
qvars == <<activeTab, query, results, status, net, toast, ev>>

Tabs == {"query", "config", "schema", "api", "logs"}

\* a record of the handler that runs: its name, and for a settled request
\* whether its instance was unmounted, the kind of the outcome and the error
Event(name, stale, kind, error) ==
  [name |-> name, stale |-> stale, kind |-> kind, error |-> error]

\* the kind of a fetch outcome: rejected fetch, non-2xx status, 2xx with a
\* body that is not JSON, 2xx with a JSON body
Kind(o) ==
  IF o.kind = "reject" THEN "transport"
  ELSE IF o.status \notin 200..299 THEN "status"
  ELSE IF o.body = <<>> THEN "unparsable"
  ELSE "json"

InitQuery ==
  /\ activeTab = "query"
  /\ query = <<>>
  /\ results = <<>>
  /\ status = "idle"
  /\ net = EmptyBag
  /\ toast = <<>>
  /\ ev = Event("mount", FALSE, "none", <<>>)

\* the config the server starts with
ServerConfig ==
  [openai |-> [model |-> "gpt-4", temperature |-> 7, max_tokens |-> 2048,
               has_api_key |-> TRUE],
   nlweb |-> [server_host |-> "0.0.0.0", server_port |-> 5000,
              vector_db |-> "memory",
              embedding_model |-> "text-embedding-ada-002",
              mcp_enabled |-> TRUE],
   error_handling |-> [retry_attempts |-> 3, timeout |-> 30,
                       backoff_strategy |-> "exponential",
                       enable_fallback |-> TRUE]]

\* useState<Config | null>(null), no data in the query cache, no save made
ConfigUnmounted ==
  /\ config = <<>>
  /\ configData = <<>>
  /\ server = ServerConfig
  /\ cnet = EmptyBag
  /\ saveStatus = "idle"

\* useState({ name: "", url: "", type: "schema_org", description: "" })
EmptySource ==
  [name |-> <<>>, url |-> <<>>, type |-> "schema_org", description |-> ""]

SourcesUnmounted ==
  /\ newSource = EmptySource
  /\ showAddDialog = FALSE
  /\ snet = EmptyBag
  /\ addStatus = "idle"
  /\ statsStatus = "pending"

\* no call of the typed client is under way
ClientIdle ==
  /\ call = <<>>
  /\ fetches = <<>>
  /\ settled = <<>>

\* ------------------------------------------------------------- JSON texts
\* the texts the headers and body boxes are given: sequences of characters
JsonChars == {"{", "}", "1"}
JsonTexts(n) == UNION {[1..k -> JsonChars] : k \in 0..n}

\* a JSON value carries its type: a number, or the object with no keys
JsonNumber(n) == [json |-> "number", value |-> n]
JsonObject == [json |-> "object", value |-> <<>>]

\* the number a string of digits denotes
RECURSIVE digits(_)
digits(t) ==
  IF t = <<>> THEN 0 ELSE 10 * digits(SubSeq(t, 1, Len(t) - 1)) + 1

\* JSON.parse(text): <<the value>>, or <<>> when it throws SyntaxError
JSONparse(text) ==
  IF text = <<"{", "}">> THEN <<JsonObject>>
  ELSE IF text # <<>> /\ \A i \in DOMAIN text : text[i] = "1"
  THEN <<JsonNumber(digits(text))>>
  ELSE <<>>

\* useState(JSON.stringify({...}, null, 2)) of the headers and the body
ObjectText == <<"{", "}">>

\* ApiTestingPanel before its first mount
TestUnmounted ==
  /\ endpointSel = "/ask"
  /\ method = "POST"
  /\ headers = ObjectText
  /\ requestBody = ObjectText
  /\ response = <<>>
  /\ tnet = EmptyBag
  /\ testStatus = "idle"

\* the value of the level and source selects that filters nothing
AllText == <<"a", "l", "l">>

\* SystemLogsPanel before its first mount
LogsUnmounted ==
  /\ logsData = <<>>
  /\ levelFilter = AllText
  /\ sourceFilter = AllText
  /\ searchTerm = <<>>
  /\ autoRefresh = TRUE

\* no background fetch is under way and no request is orphaned
PageIdle ==
  /\ polls = {}
  /\ orphans = EmptyBag

\* The specification of the query pipeline keeps the other panels as they
\* are before their first mount; each has a specification of its own.
Init ==
  /\ InitQuery
  /\ vin = <<>>
  /\ vout = <<>>
  /\ ConfigUnmounted
  /\ SourcesUnmounted
  /\ ClientIdle
  /\ created = <<>>
  /\ TestUnmounted
  /\ LogsUnmounted
  /\ PageIdle

\* ------------------------------------------------------------ what is shown
\* Button disabled={queryMutation.isPending}
SubmitDisabled == status = "pending"

\* {queryMutation.isPending && <loading-state>}
LoadingShown == activeTab = "query" /\ status = "pending"

\* the results container without its !isPending condition
ResultsShownWhilePending == activeTab = "query" /\ results # <<>>

\* {results && !queryMutation.isPending && <results-container>}
ResultsShown == activeTab = "query" /\ results # <<>> /\ status # "pending"

\* results.mainEntity.map(...): the number of item cards on screen
ItemCards == IF ResultsShown THEN Len(results[1].mainEntity) ELSE 0

\* {results.numberOfItems === 0 && <p>{results.message || "No results found"}</p>}
EmptyTextShown ==
  IF ResultsShown /\ results[1].numberOfItems = 0
  THEN <<IF Truthy(results[1], "message") THEN results[1].message
         ELSE "No results found">>
  ELSE <<>>

\* ---------------------------------------------------------------- handlers
\* the textarea's onChange, the clear button and the example buttons
setQuery(text) ==
  /\ activeTab = "query"
  /\ query' = text
  /\ toast' = <<>>
  /\ ev' = Event("setQuery", FALSE, "none", <<>>)
  /\ UNCHANGED <<activeTab, results, status, net, vin, vout, ovars>>

\* api.ask through queryMutation.mutate: one POST /ask leaves, the
\* mutation is pending
mutate(request) ==
  /\ net' = net (+) SetToBag({[body |-> request, live |-> TRUE]})
  /\ status' = "pending"

RequiredToast ==
  <<[title |-> "Query Required", description |-> "Please enter a search query",
     variant |-> "destructive"]>>

\* the submit button without its disabled attribute
handleSubmitEnabled ==
  /\ activeTab = "query"
  /\ IF trim(query) = <<>>
     THEN /\ toast' = RequiredToast
          /\ UNCHANGED <<status, net>>
     ELSE /\ BagCardinality(net) < MaxNet
          /\ mutate([query |-> trim(query), mode |-> "search"])
          /\ toast' = <<>>
  /\ ev' = Event("handleSubmit", FALSE, "none", <<>>)
  /\ UNCHANGED <<activeTab, query, results, vin, vout, ovars>>

\* handleSubmit testing and sending the text as typed, without trim()
handleSubmitNoTrim ==
  /\ activeTab = "query"
  /\ ~SubmitDisabled
  /\ IF query = <<>>
     THEN /\ toast' = RequiredToast
          /\ UNCHANGED <<status, net>>
     ELSE /\ BagCardinality(net) < MaxNet
          /\ mutate([query |-> query, mode |-> "search"])
          /\ toast' = <<>>
  /\ ev' = Event("handleSubmit", FALSE, "none", <<>>)
  /\ UNCHANGED <<activeTab, query, results, vin, vout, ovars>>

\* a click on the submit button, which is disabled while the mutation is
\* pending
handleSubmit ==
  /\ activeTab = "query"
  /\ ~SubmitDisabled
  /\ IF trim(query) = <<>>
     THEN /\ toast' = RequiredToast
          /\ UNCHANGED <<status, net>>
     ELSE /\ BagCardinality(net) < MaxNet
          /\ mutate([query |-> trim(query), mode |-> "search"])
          /\ toast' = <<>>
  /\ ev' = Event("handleSubmit", FALSE, "none", <<>>)
  /\ UNCHANGED <<activeTab, query, results, vin, vout, ovars>>

\* net without the request r
Settled(r) == net (-) SetToBag({r})

\* queryMutation.onSuccess for the request r, then the mutation is a
\* success; the state setters of an unmounted instance do nothing
onSuccess(r, data) ==
  /\ net' = Settled(r)
  /\ toast' = <<[title |-> "Query Successful",
                 description |-> "Found " \o ToString(data.numberOfItems)
                                  \o " results",
                 variant |-> "default"]>>
  /\ IF r.live
     THEN results' = <<data>> /\ status' = "success"
     ELSE UNCHANGED <<results, status>>
  /\ UNCHANGED <<activeTab, query, vin, vout, ovars>>

\* onError showing a fixed text instead of the error's message
onErrorGeneric(r, error) ==
  /\ net' = Settled(r)
  /\ toast' = <<[title |-> "Query Failed", description |-> "API request failed",
                 variant |-> "destructive"]>>
  /\ IF r.live
     THEN status' = "error"
     ELSE UNCHANGED status
  /\ UNCHANGED <<activeTab, query, results, vin, vout, ovars>>

\* a failure that leaves the mutation pending
onErrorPending(r, error) ==
  /\ net' = Settled(r)
  /\ toast' = <<[title |-> "Query Failed", description |-> error.message,
                 variant |-> "destructive"]>>
  /\ UNCHANGED <<activeTab, query, results, status, vin, vout, ovars>>

\* a failure that clears the results
onErrorClears(r, error) ==
  /\ net' = Settled(r)
  /\ toast' = <<[title |-> "Query Failed", description |-> error.message,
                 variant |-> "destructive"]>>
  /\ IF r.live
     THEN status' = "error" /\ results' = <<>>
     ELSE UNCHANGED <<status, results>>
  /\ UNCHANGED <<activeTab, query, vin, vout, ovars>>

\* queryMutation.onError for the request r, then the mutation is an error
onError(r, error) ==
  /\ net' = Settled(r)
  /\ toast' = <<[title |-> "Query Failed", description |-> error.message,
                 variant |-> "destructive"]>>
  /\ IF r.live
     THEN status' = "error"
     ELSE UNCHANGED status
  /\ UNCHANGED <<activeTab, query, results, vin, vout, ovars>>

\* the ways the promise of api.ask settles: the kind of the fetch outcome
\* and what apiRequest makes of it
Settlements == {[kind |-> Kind(o), res |-> apiRequest(o)] : o \in FetchOutcomes}

\* the promise of api.ask settles with a value
AskResolves ==
  \E r \in BagToSet(net), s \in Settlements :
    /\ s.res.ok
    /\ onSuccess(r, s.res.data)
    /\ ev' = Event("onSuccess", ~r.live, s.kind, <<>>)

\* the promise of api.ask settles with an error
AskRejects ==
  \E r \in BagToSet(net), s \in Settlements :
    /\ ~s.res.ok
    /\ onError(r, s.res.error)
    /\ ev' = Event("onError", ~r.live, s.kind, <<s.res.error>>)

\* net when the mounted instance is unmounted: every request stays in flight
\* and none is live
Orphaned ==
  LET Bodies == {r.body : r \in BagToSet(net)}
      Count(r) == IF r \in BagToSet(net) THEN net[r] ELSE 0
      Copies(b) == Count([body |-> b, live |-> TRUE])
                   + Count([body |-> b, live |-> FALSE])
  IN [r \in {[body |-> b, live |-> FALSE] : b \in Bodies} |-> Copies(r.body)]

\* a click on a navigation button: the panel of the old tab is unmounted, its
\* state is gone and its requests stay in flight; the panel of the new tab is
\* mounted afresh
setActiveTab(tab) ==
  /\ tab # activeTab
  /\ activeTab' = tab
  /\ query' = <<>>
  /\ results' = <<>>
  /\ status' = "idle"
  /\ net' = Orphaned
  /\ toast' = <<>>
  /\ ev' = Event("setActiveTab", FALSE, "none", <<>>)
  /\ UNCHANGED <<vin, vout, ovars>>

Next ==
  \/ \E text \in Strs(MaxLen) : setQuery(text)
  \/ handleSubmit
  \/ AskResolves
  \/ AskRejects
  \/ \E tab \in Tabs : setActiveTab(tab)

Spec == Init /\ [][Next]_vars

\* -------------------------------------------- the contract layer on its own
InitSchema ==
  /\ InitQuery
  /\ vin \in QueryRequestInputs
  /\ vout = <<>>
  /\ ConfigUnmounted
  /\ SourcesUnmounted
  /\ ClientIdle
  /\ created = <<>>
  /\ TestUnmounted
  /\ LogsUnmounted
  /\ PageIdle

\* queryRequestSchema.safeParse(vin)
parseQueryRequest ==
  /\ vout = <<>>
  /\ vout' = <<queryRequestSchema(vin)>>
  /\ UNCHANGED <<vin, qvars, ovars>>

\* the next object arrives
nextQueryRequest ==
  /\ vout # <<>>
  /\ vin' \in QueryRequestInputs
  /\ vout' = <<>>
  /\ UNCHANGED <<qvars, ovars>>

NextSchema == parseQueryRequest \/ nextQueryRequest

SpecSchema == InitSchema /\ [][NextSchema]_vars

\* ------------------------------------------- every schema of the contract
Schemas ==
  {"queryRequest", "openaiConfig", "nlwebConfig", "errorHandlingConfig",
   "schemaOrgObject", "dataSource"}

\* schema.safeParse(obj)
safeParse(schema, obj) ==
  CASE schema = "queryRequest" -> queryRequestSchema(obj)
    [] schema = "openaiConfig" -> openaiConfigSchema(obj)
    [] schema = "nlwebConfig" -> nlwebConfigSchema(obj)
    [] schema = "errorHandlingConfig" -> errorHandlingConfigSchema(obj)
    [] schema = "schemaOrgObject" -> schemaOrgObjectSchema(obj)
    [] schema = "dataSource" -> dataSourceSchema(obj)

\* the keys the shape of a schema names
shapeKeys(schema) ==
  CASE schema = "queryRequest" -> {"query", "mode", "prev"}
    [] schema = "openaiConfig" ->
         {"model", "temperature", "max_tokens", "has_api_key"}
    [] schema = "nlwebConfig" ->
         {"server_host", "server_port", "vector_db", "embedding_model",
          "mcp_enabled"}
    [] schema = "errorHandlingConfig" ->
         {"retry_attempts", "timeout", "backoff_strategy", "enable_fallback"}
    [] schema = "schemaOrgObject" ->
         {"@type", "@context", "name", "description", "url", "address",
          "aggregateRating", "priceRange", "servesCuisine", "amenityFeature"}
    [] schema = "dataSource" ->
         {"name", "url", "type", "description", "status", "object_count",
          "last_updated", "error"}

\* an object with one key, or with none
Opt(key, values) == {key :> v : v \in values} \cup {<<>>}

\* a key that no shape names
Unknown == Opt("extra", {"x"})

\* the objects handed to each schema
ContractInputs ==
  {[schema |-> "queryRequest", value |-> q @@ x] :
     q \in QueryRequestInputs, x \in Unknown}
  \cup {[schema |-> "openaiConfig", value |-> t @@ m @@ k @@ x] :
           t \in Opt("temperature", {-1, 0, 10, 11}),
           m \in Opt("max_tokens", {0, 1, 4000, 4001}),
           k \in Opt("has_api_key", {TRUE}), x \in Unknown}
  \cup {[schema |-> "nlwebConfig", value |-> h @@ m @@ x] :
           h \in Opt("server_port", {5000}),
           m \in Opt("mcp_enabled", {FALSE}), x \in Unknown}
  \cup {[schema |-> "errorHandlingConfig", value |-> r @@ t @@ b @@ x] :
           r \in Opt("retry_attempts", {0, 1, 10, 11}),
           t \in Opt("timeout", {4, 5, 120, 121}),
           b \in Opt("backoff_strategy", {"linear", "random"}),
           x \in Unknown}
  \cup {[schema |-> "schemaOrgObject", value |-> t @@ n @@ x] :
           t \in Opt("@type", {"Restaurant"}), n \in Opt("name", {"Roma"}),
           x \in Unknown}
  \cup {[schema |-> "dataSource", value |-> n @@ u @@ t @@ x] :
           n \in Opt("name", {<<"a">>}), u \in Opt("url", Urls(MaxUrl)),
           t \in {[type |-> "rss"]}, x \in Unknown}

InitContract ==
  /\ InitQuery
  /\ vin \in ContractInputs
  /\ vout = <<>>
  /\ ConfigUnmounted
  /\ SourcesUnmounted
  /\ ClientIdle
  /\ created = <<>>
  /\ TestUnmounted
  /\ LogsUnmounted
  /\ PageIdle

\* schema.safeParse(value)
parseContract ==
  /\ vout = <<>>
  /\ vout' = <<safeParse(vin.schema, vin.value)>>
  /\ UNCHANGED <<vin, qvars, ovars>>

\* the next object arrives
nextContract ==
  /\ vout # <<>>
  /\ vin' \in ContractInputs
  /\ vout' = <<>>
  /\ UNCHANGED <<qvars, ovars>>

NextContract == parseContract \/ nextContract

SpecContract == InitContract /\ [][NextContract]_vars

\* ------------------------------------------------ the configuration panel
\* what the specifications of the other panels leave alone
QueryUnmounted ==
  /\ query = <<>>
  /\ results = <<>>
  /\ status = "idle"
  /\ net = EmptyBag
  /\ vin = <<>>
  /\ vout = <<>>

qrest == <<query, results, status, net, vin, vout>>

GetConfig == [method |-> "GET"]
PostConfig(body) == [method |-> "POST", body |-> body]

\* ConfigurationPanel is mounted: its useQuery has issued GET /config
InitConfig ==
  /\ activeTab = "config"
  /\ QueryUnmounted
  /\ toast = <<>>
  /\ ev = Event("mount", FALSE, "none", <<>>)
  /\ config = <<>>
  /\ configData = <<>>
  /\ server = ServerConfig
  /\ cnet = SetToBag({GetConfig})
  /\ saveStatus = "idle"
  /\ SourcesUnmounted
  /\ ClientIdle
  /\ created = <<>>
  /\ TestUnmounted
  /\ LogsUnmounted
  /\ PageIdle

\* past the loading branch (isLoading || !config) the panel renders the
\* fields of all three sections, which throws when a section is missing
ConfigShown == config # <<>> /\ Sections \subseteq DOMAIN config[1]

\* the save buttons: disabled={updateConfigMutation.isPending}
SaveDisabled == saveStatus = "pending"

\* the values the inputs of the panel are given: the temperature slider
\* (tenths), the retry-attempts number box, into which any number can be
\* typed, and the MCP checkbox
ConfigEdits ==
  {<<"openai", "temperature", v>> : v \in {7, 10}}
  \cup {<<"error_handling", "retry_attempts", v>> : v \in {3, 11}}
  \cup {<<"nlweb", "mcp_enabled", v>> : v \in BOOLEAN}

\* an onChange of an input:
\* setConfig({ ...config, [section]: { ...config[section], [field]: value } })
setConfig(section, field, value) ==
  /\ activeTab = "config"
  /\ ConfigShown
  /\ config' = <<[config[1] EXCEPT ![section][field] = value]>>
  /\ toast' = <<>>
  /\ ev' = Event("setConfig", FALSE, "none", <<>>)
  /\ UNCHANGED <<activeTab, qrest, configData, server, cnet, saveStatus,
                 svars, avars, created, xvars>>

\* handleSave posting the whole config instead of the one section
handleSaveAll(section) ==
  /\ activeTab = "config"
  /\ ConfigShown
  /\ ~SaveDisabled
  /\ IF config = <<>>
     THEN UNCHANGED <<cnet, saveStatus>>
     ELSE /\ cnet' = cnet (+) SetToBag({PostConfig(config[1])})
          /\ saveStatus' = "pending"
  /\ toast' = <<>>
  /\ ev' = Event("handleSave", FALSE, "none", <<>>)
  /\ UNCHANGED <<activeTab, qrest, config, configData, server, svars, avars, created, xvars>>

\* the save buttons without their disabled attribute
handleSaveEnabled(section) ==
  /\ activeTab = "config"
  /\ ConfigShown
  /\ IF config = <<>>
     THEN UNCHANGED <<cnet, saveStatus>>
     ELSE /\ cnet' = cnet (+) SetToBag({PostConfig(section :> config[1][section])})
          /\ saveStatus' = "pending"
  /\ toast' = <<>>
  /\ ev' = Event("handleSave", FALSE, "none", <<>>)
  /\ UNCHANGED <<activeTab, qrest, config, configData, server, svars, avars, created, xvars>>

\* a click on the save button of a section:
\* updateConfigMutation.mutate({ [section]: config[section] })
handleSave(section) ==
  /\ activeTab = "config"
  /\ ConfigShown
  /\ ~SaveDisabled
  /\ IF config = <<>>
     THEN UNCHANGED <<cnet, saveStatus>>
     ELSE /\ cnet' = cnet (+) SetToBag({PostConfig(section :> config[1][section])})
          /\ saveStatus' = "pending"
  /\ toast' = <<>>
  /\ ev' = Event("handleSave", FALSE, "none", <<>>)
  /\ UNCHANGED <<activeTab, qrest, config, configData, server, svars, avars, created, xvars>>

\* POST /config on the server: the sections of the body replace the
\* server's, the other sections stay
postConfig(held, body) == body @@ held

\* the bodies GET /config answers with: the config the server holds, or
\* that config without its error_handling section
getConfigBodies(held) ==
  {held, [s \in Sections \ {"error_handling"} |-> held[s]]}

\* queryClient.invalidateQueries({ queryKey: ["config"] }): the mounted
\* query refetches; a fetch under way is replaced by the new one
invalidateConfig(b) ==
  IF GetConfig \in BagToSet(b) THEN b ELSE b (+) SetToBag({GetConfig})

\* updateConfigMutation.onSuccess for the request r
onSaveSuccess(r) ==
  /\ server' = postConfig(server, r.body)
  /\ cnet' = invalidateConfig(cnet (-) SetToBag({r}))
  /\ toast' = <<[title |-> "Configuration Saved",
                 description |-> "Settings have been updated successfully",
                 variant |-> "default"]>>
  /\ saveStatus' = "success"
  /\ UNCHANGED <<activeTab, qrest, config, configData, svars, avars, created, xvars>>

\* updateConfigMutation.onError for the request r; a save that fails has
\* not been applied by the server
onSaveError(r, error) ==
  /\ cnet' = cnet (-) SetToBag({r})
  /\ toast' = <<[title |-> "Save Failed", description |-> error.message,
                 variant |-> "destructive"]>>
  /\ saveStatus' = "error"
  /\ UNCHANGED <<activeTab, qrest, config, configData, server, svars, avars, created, xvars>>

\* the promise of api.updateConfig settles with a value; the event records
\* whether the save changed the config the server holds
SaveResolves ==
  \E r \in BagToSet(cnet) :
    /\ r.method = "POST"
    /\ onSaveSuccess(r)
    /\ ev' = Event("onSaveSuccess", FALSE, "json", <<>>)
             @@ [changed |-> postConfig(server, r.body) # server]

\* the promise of api.updateConfig settles with an error
SaveRejects ==
  \E r \in BagToSet(cnet), s \in Settlements :
    /\ r.method = "POST"
    /\ ~s.res.ok
    /\ onSaveError(r, s.res.error)
    /\ ev' = Event("onSaveError", FALSE, s.kind, <<s.res.error>>)

\* the query takes the data of a fetch and the effect on [configData]
\* runs: if (configData) setConfig(configData).  react-query keeps the
\* reference of the data it holds when the fetched data is deeply equal to
\* it (structural sharing), and then the effect does not run.  An
\* unmounted panel has no effect to run.
setConfigData(data) ==
  /\ configData' = <<data>>
  /\ config' = IF activeTab = "config" /\ <<data>> # configData
               THEN <<data>> ELSE config

\* the promise of api.getConfig settles with the parsed body, which
\* apiRequest returns as it is
ConfigResolves ==
  \E body \in getConfigBodies(server) :
    /\ GetConfig \in BagToSet(cnet)
    /\ cnet' = cnet (-) SetToBag({GetConfig})
    /\ setConfigData(body)
    /\ toast' = <<>>
    /\ ev' = Event("getConfigResolved", FALSE, "json", <<>>)
    /\ UNCHANGED <<activeTab, qrest, server, saveStatus, svars, avars, created, xvars>>

\* the promise of api.getConfig settles with an error: the query keeps
\* the data it has
ConfigRejects ==
  \E s \in Settlements :
    /\ ~s.res.ok
    /\ GetConfig \in BagToSet(cnet)
    /\ cnet' = cnet (-) SetToBag({GetConfig})
    /\ toast' = <<>>
    /\ ev' = Event("getConfigRejected", FALSE, s.kind, <<s.res.error>>)
    /\ UNCHANGED <<activeTab, qrest, config, configData, server, saveStatus,
                   svars, avars, created, xvars>>

NextConfig ==
  \/ \E e \in ConfigEdits : setConfig(e[1], e[2], e[3])
  \/ \E section \in Sections : handleSave(section)
  \/ SaveResolves
  \/ SaveRejects
  \/ ConfigResolves
  \/ ConfigRejects

SpecConfig == InitConfig /\ [][NextConfig]_vars

\* --------------------------------------------------- the data source panel
GetStats == [method |-> "GET"]
PostSource(source) == [method |-> "POST", body |-> source]

\* SchemaDataPanel is mounted: the ["stats"] query has issued
\* GET /data-sources
InitSources ==
  /\ activeTab = "schema"
  /\ QueryUnmounted
  /\ toast = <<>>
  /\ ev = Event("mount", FALSE, "none", <<>>)
  /\ newSource = EmptySource
  /\ showAddDialog = FALSE
  /\ snet = SetToBag({GetStats})
  /\ addStatus = "idle"
  /\ statsStatus = "pending"
  /\ ConfigUnmounted
  /\ ClientIdle
  /\ created = <<>>
  /\ TestUnmounted
  /\ LogsUnmounted
  /\ PageIdle

\* past the loading branch (isLoading) the panel and its dialog render
SourcesShown == statsStatus # "pending"

\* the add button of the dialog: disabled={addSourceMutation.isPending}
AddDisabled == addStatus = "pending"

\* the dialog's onOpenChange: the trigger button, the close button, Escape
setShowAddDialog(open) ==
  /\ activeTab = "schema"
  /\ SourcesShown
  /\ open # showAddDialog
  /\ showAddDialog' = open
  /\ toast' = <<>>
  /\ ev' = Event("setShowAddDialog", FALSE, "none", <<>>)
  /\ UNCHANGED <<activeTab, qrest, newSource, snet, addStatus, statsStatus,
                 cvars, avars, created, xvars>>

\* the values the fields of the form are given
SourceEdits ==
  {<<"name", v>> : v \in {<<>>, <<"a">>}}
  \cup {<<"url", v>> : v \in Urls(MaxUrl)}
  \cup {<<"type", v>> : v \in {"schema_org", "rss"}}

\* an onChange of a field of the form:
\* setNewSource({ ...newSource, [field]: value })
setNewSource(field, value) ==
  /\ activeTab = "schema"
  /\ SourcesShown
  /\ showAddDialog
  /\ newSource' = [newSource EXCEPT ![field] = value]
  /\ toast' = <<>>
  /\ ev' = Event("setNewSource", FALSE, "none", <<>>)
  /\ UNCHANGED <<activeTab, qrest, showAddDialog, snet, addStatus,
                 statsStatus, cvars, avars, created, xvars>>

MissingToast ==
  <<[title |-> "Required Fields Missing",
     description |-> "Please provide name and URL",
     variant |-> "destructive"]>>

\* the add button sending a status of its own
handleAddSourceActive ==
  /\ activeTab = "schema"
  /\ SourcesShown
  /\ showAddDialog
  /\ ~AddDisabled
  /\ IF newSource.name = <<>> \/ newSource.url = <<>>
     THEN /\ toast' = MissingToast
          /\ UNCHANGED <<snet, addStatus>>
     ELSE /\ snet' = snet (+) SetToBag({PostSource(
                          newSource @@ [status |-> "active"])})
          /\ addStatus' = "pending"
          /\ toast' = <<>>
  /\ ev' = Event("handleAddSource", FALSE, "none", <<>>)
  /\ UNCHANGED <<activeTab, qrest, newSource, showAddDialog, statsStatus,
                 cvars, avars, created, xvars>>

\* a click on the add button of the dialog
handleAddSource ==
  /\ activeTab = "schema"
  /\ SourcesShown
  /\ showAddDialog
  /\ ~AddDisabled
  /\ IF newSource.name = <<>> \/ newSource.url = <<>>
     THEN /\ toast' = MissingToast
          /\ UNCHANGED <<snet, addStatus>>
     ELSE /\ snet' = snet (+) SetToBag({PostSource(newSource)})
          /\ addStatus' = "pending"
          /\ toast' = <<>>
  /\ ev' = Event("handleAddSource", FALSE, "none", <<>>)
  /\ UNCHANGED <<activeTab, qrest, newSource, showAddDialog, statsStatus,
                 cvars, avars, created, xvars>>

\* queryClient.invalidateQueries({ queryKey: ["stats"] }), and a tick of
\* refetchInterval: the query fetches unless it is fetching
refetchStats(b) ==
  IF GetStats \in BagToSet(b) THEN b ELSE b (+) SetToBag({GetStats})

\* addSourceMutation.onSuccess for the request r
onAddSuccess(r) ==
  /\ snet' = refetchStats(snet (-) SetToBag({r}))
  /\ showAddDialog' = FALSE
  /\ newSource' = EmptySource
  /\ toast' = <<[title |-> "Data Source Added",
                 description |-> "The new data source is being indexed",
                 variant |-> "default"]>>
  /\ addStatus' = "success"
  /\ UNCHANGED <<activeTab, qrest, statsStatus, cvars, avars, xvars>>

\* a failure that closes the dialog and resets the form
onAddErrorResets(r, error) ==
  /\ snet' = snet (-) SetToBag({r})
  /\ showAddDialog' = FALSE
  /\ newSource' = EmptySource
  /\ toast' = <<[title |-> "Failed to Add Source",
                 description |-> error.message, variant |-> "destructive"]>>
  /\ addStatus' = "error"
  /\ UNCHANGED <<activeTab, qrest, statsStatus, cvars, avars, created, xvars>>

\* addSourceMutation.onError for the request r
onAddError(r, error) ==
  /\ snet' = snet (-) SetToBag({r})
  /\ toast' = <<[title |-> "Failed to Add Source",
                 description |-> error.message, variant |-> "destructive"]>>
  /\ addStatus' = "error"
  /\ UNCHANGED <<activeTab, qrest, newSource, showAddDialog, statsStatus,
                 cvars, avars, created, xvars>>

\* POST /data-sources on the server: the data source is what the shared
\* dataSourceSchema makes of the body; its status and object_count are kept
createSource(body) ==
  LET source == dataSourceSchema(body).data
  IN <<[status |-> source.status, object_count |-> source.object_count]>>

\* the promise of api.addDataSource settles with a value: the server has
\* accepted the body and created the data source
AddResolves ==
  \E r \in BagToSet(snet) :
    /\ r.method = "POST"
    /\ dataSourceSchema(r.body).success
    /\ created' = createSource(r.body)
    /\ onAddSuccess(r)
    /\ ev' = Event("onAddSuccess", FALSE, "json", <<>>)

\* the promise of api.addDataSource settles with an error
AddRejects ==
  \E r \in BagToSet(snet), s \in Settlements :
    /\ r.method = "POST"
    /\ ~s.res.ok
    /\ onAddError(r, s.res.error)
    /\ ev' = Event("onAddError", FALSE, s.kind, <<s.res.error>>)

\* refetchInterval: 30000 of the ["stats"] query
StatsTick ==
  /\ activeTab = "schema"
  /\ GetStats \notin BagToSet(snet)
  /\ snet' = refetchStats(snet)
  /\ toast' = <<>>
  /\ ev' = Event("refetchInterval", FALSE, "none", <<>>)
  /\ UNCHANGED <<activeTab, qrest, newSource, showAddDialog, addStatus,
                 statsStatus, cvars, avars, created, xvars>>

\* the promise of api.getStats settles: the query has data, or it has an
\* error when it had no data
StatsSettles ==
  \E ok \in BOOLEAN :
    /\ GetStats \in BagToSet(snet)
    /\ snet' = snet (-) SetToBag({GetStats})
    /\ statsStatus' = IF ok THEN "success"
                      ELSE IF statsStatus = "pending" THEN "error"
                      ELSE statsStatus
    /\ toast' = <<>>
    /\ ev' = Event("getStatsSettled", FALSE, IF ok THEN "json" ELSE "status",
                   <<>>)
    /\ UNCHANGED <<activeTab, qrest, newSource, showAddDialog, addStatus,
                   cvars, avars, created, xvars>>

\* the moves of the status of a data source
Lifecycle ==
  {<<"inactive", "syncing">>, <<"syncing", "active">>, <<"syncing", "error">>}

\* the external ingestion moves the data source created last along its
\* lifecycle; an ingestion that succeeds has counted an object
Ingestion ==
  \E move \in Lifecycle :
    /\ created # <<>>
    /\ created[1].status = move[1]
    /\ created' = <<[status |-> move[2],
                     object_count |-> IF move[2] = "active" THEN 1
                                      ELSE created[1].object_count]>>
    /\ toast' = <<>>
    /\ ev' = Event("ingestion", FALSE, "none", <<>>)
    /\ UNCHANGED <<activeTab, qrest, svars, cvars, avars, xvars>>

NextSources ==
  \/ \E open \in BOOLEAN : setShowAddDialog(open)
  \/ \E e \in SourceEdits : setNewSource(e[1], e[2])
  \/ handleAddSource
  \/ AddResolves
  \/ AddRejects
  \/ StatsTick
  \/ StatsSettles
  \/ Ingestion

SpecSources == InitSources /\ [][NextSources]_vars

\* -------------------------------------------- the typed client on its own
API_BASE == "/api"

\* the functions of api: the endpoint of each and whether it posts its
\* argument
ApiFunctions ==
  {[fn |-> "ask", endpoint |-> "/ask", post |-> TRUE],
   [fn |-> "mcp", endpoint |-> "/mcp", post |-> TRUE],
   [fn |-> "getConfig", endpoint |-> "/config", post |-> FALSE],
   [fn |-> "updateConfig", endpoint |-> "/config", post |-> TRUE],
   [fn |-> "getStats", endpoint |-> "/data-sources", post |-> FALSE],
   [fn |-> "addDataSource", endpoint |-> "/data-sources", post |-> TRUE],
   [fn |-> "getLogs", endpoint |-> "/logs", post |-> FALSE],
   [fn |-> "getHealth", endpoint |-> "/health", post |-> FALSE],
   [fn |-> "testEndpoint", endpoint |-> "/test", post |-> TRUE]}

\* the options a function of api passes: { method: "POST", body:
\* JSON.stringify(argument) }, or none
apiOptions(f) ==
  IF f.post THEN [method |-> "POST", body |-> "argument"] ELSE <<>>

\* values of the options parameter of apiRequest (RequestInit), with and
\* without headers of their own
CallerOptions ==
  {m @@ h : m \in {<<>>, [method |-> "POST", body |-> "argument"]},
            h \in Opt("headers", {"Authorization" :> "Bearer t",
                                  "Content-Type" :> "application/json"})}

\* the second argument of fetch:
\* { headers: { "Content-Type": "application/json", ...options.headers },
\*   ...options }
fetchInit(options) ==
  LET own == IF "headers" \in DOMAIN options THEN options.headers ELSE <<>>
  IN options @@ [headers |-> own @@ ("Content-Type" :> "application/json")]

\* apiRequest up to its first await: fetch is called once
apiRequestBegins(fn, endpoint, options) ==
  /\ call = <<>>
  /\ call' = <<[fn |-> fn, endpoint |-> endpoint, options |-> options]>>
  /\ fetches' = <<[url |-> API_BASE \o endpoint, init |-> fetchInit(options)]>>
  /\ settled' = <<>>
  /\ UNCHANGED <<qvars, vin, vout, cvars, svars, created, xvars>>

\* a call of a function of api
apiCall(f) == apiRequestBegins(f.fn, f.endpoint, apiOptions(f))

\* a call of apiRequest with options of the caller's own
apiRequestWith(endpoint, options) ==
  apiRequestBegins("apiRequest", endpoint, options)

InitClient ==
  /\ InitQuery
  /\ vin = <<>>
  /\ vout = <<>>
  /\ ConfigUnmounted
  /\ SourcesUnmounted
  /\ ClientIdle
  /\ created = <<>>
  /\ TestUnmounted
  /\ LogsUnmounted
  /\ PageIdle

\* apiRequest calling fetch again when the call has failed
fetchSettlesAgain(o) ==
  /\ call # <<>>
  /\ settled = <<>>
  /\ IF ~apiRequest(o).ok /\ Len(fetches) < 2
     THEN fetches' = Append(fetches, fetches[1]) /\ UNCHANGED settled
     ELSE settled' = <<[outcome |-> o, res |-> apiRequest(o)]>>
          /\ UNCHANGED fetches
  /\ UNCHANGED <<call, qvars, vin, vout, cvars, svars, created, xvars>>

\* apiRequest from its first await on: the fetch has the outcome o and the
\* promise of the call settles
fetchSettles(o) ==
  /\ call # <<>>
  /\ settled = <<>>
  /\ settled' = <<[outcome |-> o, res |-> apiRequest(o)]>>
  /\ UNCHANGED <<call, fetches, qvars, vin, vout, cvars, svars, created, xvars>>

\* the caller has the result; the next call can be made
callReturns ==
  /\ settled # <<>>
  /\ call' = <<>>
  /\ fetches' = <<>>
  /\ settled' = <<>>
  /\ UNCHANGED <<qvars, vin, vout, cvars, svars, created, xvars>>

NextClient ==
  \/ \E f \in ApiFunctions : apiCall(f)
  \/ \E options \in CallerOptions : apiRequestWith("/config", options)
  \/ \E o \in FetchOutcomes : fetchSettles(o)
  \/ callReturns

SpecClient == InitClient /\ [][NextClient]_vars

TypeOK ==
  /\ activeTab \in Tabs
  /\ query \in Strs(MaxLen)
  /\ results \in {<<>>} \cup {<<r>> : r \in SearchResponses}
  /\ status \in {"idle", "pending", "success", "error"}
  /\ IsABag(net)
  /\ BagCardinality(net) <= MaxNet
  /\ \A r \in BagToSet(net) : r.live \in BOOLEAN
  /\ activeTab # "query" => status = "idle" /\ results = <<>> /\ query = <<>>

\* ------------------------------------------------------------- properties
\* the requests of the mounted instance that have not settled
InFlight == {r \in BagToSet(net) : r.live}

\* their number
InFlightCount == BagCardinality([r \in InFlight |-> net[r]])

\* C2: the mounted instance of QueryInterface never has two /ask requests in
\* flight, and while its mutation is pending handleSubmit does not run and no
\* request is issued.
C2_SingleFlight ==
  /\ [](InFlightCount <= 1)
  /\ [][status = "pending" =>
          /\ BagCardinality(net') <= BagCardinality(net)
          /\ ev'.name # "handleSubmit"]_vars

\* C2 witness: a request is in flight and the query box holds a text that a
\* click would submit
C2_Witness ==
  /\ status = "pending"
  /\ InFlightCount = 1
  /\ trim(query) # <<>>
  /\ BagCardinality(net) < MaxNet

\* C3: every step into Submitting clears the stored results.
C3_ResultsCleared ==
  [][status # "pending" /\ status' = "pending" => results' = <<>>]_vars

\* C4: a well-formed request passes validation exactly when its query is
\* non-empty after trimming.
C4_TrimmedNonEmpty ==
  (/\ vout # <<>>
   /\ "query" \in DOMAIN vin
   /\ ("mode" \in DOMAIN vin => vin.mode \in Modes))
  => (vout[1].success <=> trim(vin.query) # <<>>)

\* C5: a click on submit with an empty or whitespace-only text issues no
\* request and leaves the pipeline and the results alone; a request that is
\* issued carries the trimmed text and mode "search", and the text of every
\* request in flight is trimmed and non-empty.
C5_ValidationBeforeNetwork ==
  /\ [](\A r \in BagToSet(net) : /\ r.body.mode = "search"
                                 /\ r.body.query # <<>>
                                 /\ trim(r.body.query) = r.body.query)
  /\ [][ev'.name = "handleSubmit" =>
          IF trim(query) = <<>>
          THEN net' = net /\ status' = status /\ results' = results
          ELSE net' = net (+) SetToBag({[body |-> [query |-> trim(query),
                                                   mode |-> "search"],
                                         live |-> TRUE]})]_vars

\* C5 witness: submit was clicked on a whitespace-only text
C5_Witness ==
  /\ ev.name = "handleSubmit"
  /\ query # <<>>
  /\ trim(query) = <<>>
  /\ net = EmptyBag

ErrorToast(error) ==
  <<[title |-> "Query Failed", description |-> error.message,
     variant |-> "destructive"]>>

\* C6: when the /ask call of the mounted instance fails, the pipeline goes
\* from Submitting to Failed, the toast shows the message of the error, and
\* no request of that instance is in flight; a request is only ever issued
\* by a click on submit.
C6_FailureShown ==
  /\ [][(ev'.name = "onError" /\ ~ev'.stale) =>
          /\ status = "pending"
          /\ status' = "error"
          /\ toast' = ErrorToast(ev'.error[1])
          /\ InFlight' = {}]_vars
  /\ [][BagCardinality(net') > BagCardinality(net) =>
          ev'.name = "handleSubmit"]_vars

\* C6 witness: a call failed with a non-2xx status and a JSON error body
C6_Witness ==
  /\ ev.name = "onError"
  /\ ~ev.stale
  /\ ev.kind = "status"
  /\ ev.error[1].message = "bad query"
  /\ status = "error"

FailureKinds == {"transport", "status", "unparsable"}

\* C7: a pending pipeline always has a request that can still settle; once
\* that request settles the pipeline is no longer Submitting; a rejected
\* fetch, a non-2xx status and a body that is not JSON each end in Failed;
\* and in Failed the submit button is enabled.
C7_NeverStuck ==
  /\ status = "pending" => InFlight # {}
  /\ (ev.name \in {"onSuccess", "onError"} /\ ~ev.stale) =>
       status \in {"success", "error"} /\ ~SubmitDisabled
  /\ (ev.kind \in FailureKinds /\ ~ev.stale) => status = "error"
  /\ status = "error" => ~SubmitDisabled

\* C7 witness: a 2xx answer whose body is not JSON has failed the call
C7_Witness ==
  /\ ev.kind = "unparsable"
  /\ ~ev.stale
  /\ status = "error"

Transitions ==
  {<<"idle", "pending">>, <<"pending", "success">>, <<"pending", "error">>,
   <<"success", "pending">>, <<"error", "pending">>}

\* C8: the pipeline of a mounted instance is in one of the four states, it
\* changes state only along Idle->Submitting, Submitting->Success,
\* Submitting->Failed, Success->Submitting and Failed->Submitting, and the
\* loading indicator and the results container are never both on screen.
C8_StateMachine ==
  /\ [](/\ status \in {"idle", "pending", "success", "error"}
        /\ ~(LoadingShown /\ ResultsShown))
  /\ [][(activeTab = "query" /\ activeTab' = "query" /\ status' # status)
          => <<status, status'>> \in Transitions]_vars

\* C8 witness: a query is resubmitted while the results of the previous one
\* are still held
C8_Witness ==
  /\ status = "pending"
  /\ results # <<>>
  /\ LoadingShown

\* C9: in Success with numberOfItems 0 the message of the response, or "No
\* results found" when it has none, is on screen and no item card is.
C9_EmptyState ==
  (status = "success" /\ results # <<>> /\ results[1].numberOfItems = 0)
  => /\ ItemCards = 0
     /\ EmptyTextShown = <<IF "message" \in DOMAIN results[1]
                            THEN results[1].message
                            ELSE "No results found">>

\* C10: in Success a response without message has numberOfItems equal to the
\* length of mainEntity.
C10_CountMatches ==
  (status = "success" /\ results # <<>> /\ "message" \notin DOMAIN results[1])
  => results[1].numberOfItems = Len(results[1].mainEntity)

\* the POST /config requests that have not settled
SavesInFlight == {r \in BagToSet(cnet) : r.method = "POST"}

\* the sections in which two configs differ
Differing(c, d) == {s \in Sections : c[s] # d[s]}

\* C11: a save of a section issues one POST /config whose body holds that
\* section of the local config and no other key; the config of the server
\* changes only when a save succeeds, and then in no section but the one
\* the request carried; and every section GET /config reads back is the
\* server's.
C11_SectionIndependent ==
  /\ [](\A r \in SavesInFlight :
          \E s \in Sections : DOMAIN r.body = {s})
  /\ [][ev'.name = "handleSave" =>
          \E s \in Sections :
            cnet' = cnet (+) SetToBag({PostConfig(s :> config[1][s])})]_vars
  /\ [][server' # server =>
          /\ ev'.name = "onSaveSuccess"
          /\ \E r \in SavesInFlight :
               /\ Differing(server', server) \subseteq DOMAIN r.body
               /\ \A s \in DOMAIN r.body : server'[s] = r.body[s]]_vars
  /\ [][ev'.name = "getConfigResolved" =>
          \A s \in DOMAIN configData'[1] : configData'[1][s] = server[s]]_vars

\* C11 witness: the openai section was saved while the local config holds
\* an unsaved edit of error_handling; the server took the one and not the
\* other
C11_Witness ==
  /\ ev.name = "onSaveSuccess"
  /\ server.openai.temperature = 10
  /\ ConfigShown
  /\ config[1].error_handling.retry_attempts = 11
  /\ server.error_handling = ServerConfig.error_handling

\* C12: a successful save leaves a GET /config in flight and a failed save
\* issues none; when a fetch completes with the server's config, the local
\* config is the server's config.
C12_RefetchReplaces ==
  /\ [][ev'.name = "onSaveSuccess" => GetConfig \in BagToSet(cnet')]_vars
  /\ [][ev'.name = "onSaveError" =>
          (GetConfig \in BagToSet(cnet') <=> GetConfig \in BagToSet(cnet))]_vars
  /\ [][(ev'.name = "getConfigResolved" /\ configData' = <<server>>) =>
          config' = <<server>>]_vars

\* a body of GET /config that lacks a required section
MissingSection(obj) == ~(Sections \subseteq DOMAIN obj)

\* C13: a body of GET /config that lacks a required section is never taken
\* as the query's data nor as the local config.
C13_MalformedRejected ==
  /\ configData # <<>> => ~MissingSection(configData[1])
  /\ config # <<>> => ~MissingSection(config[1])

\* a section with a numeric field outside the range the contract gives it
OutOfRange(section, obj) ==
  \/ /\ section = "openai"
     /\ \/ obj.temperature < 0 \/ obj.temperature > 10
        \/ obj.max_tokens < 1 \/ obj.max_tokens > 4000
  \/ /\ section = "error_handling"
     /\ \/ obj.retry_attempts < 1 \/ obj.retry_attempts > 10
        \/ obj.timeout < 5 \/ obj.timeout > 120

\* C15: a section of the local config with a numeric field out of range
\* fails its schema, and no POST /config in flight carries such a section.
C15_RangeValidated ==
  /\ ConfigShown =>
       \A s \in Sections :
         OutOfRange(s, config[1][s]) => ~sectionSchema(s, config[1][s]).success
  /\ \A r \in SavesInFlight :
       \A s \in DOMAIN r.body : ~OutOfRange(s, r.body[s])

\* the POST /data-sources requests that have not settled
AddsInFlight == {r \in BagToSet(snet) : r.method = "POST"}

\* C14: no POST /data-sources is issued for a source whose url does not
\* parse as a URL.
C14_UrlValidated ==
  \A r \in AddsInFlight : isUrl(r.body.url) /\ dataSourceSchema(r.body).success

\* C16: an object with an "@type" passes schemaOrgObjectSchema and comes out
\* with every field it came in with, and an object with a key that the shape
\* of any other schema does not name fails that schema.
C16_OpenOnlyForObjects ==
  vout # <<>> =>
    /\ (vin.schema = "schemaOrgObject" /\ "@type" \in DOMAIN vin.value) =>
         (vout[1].success /\ vout[1].data = vin.value)
    /\ (/\ vin.schema # "schemaOrgObject"
        /\ ~(DOMAIN vin.value \subseteq shapeKeys(vin.schema))) =>
         ~vout[1].success

\* C17: from the moment a function of api is called until its promise has
\* settled, with a value or with an error, its call has made one fetch, to
\* the endpoint of the function; fetch is called only as a call begins.
C17_OneRequestPerCall ==
  /\ [](call # <<>> =>
          /\ Len(fetches) = 1
          /\ fetches[1].url = API_BASE \o call[1].endpoint)
  /\ [][Len(fetches') > Len(fetches) => call = <<>> /\ call' # <<>>]_vars

\* C17 witness: a call of api.updateConfig has failed on a non-2xx answer
C17_Witness ==
  /\ call # <<>>
  /\ call[1].fn = "updateConfig"
  /\ settled # <<>>
  /\ ~settled[1].res.ok
  /\ settled[1].outcome.kind = "response"
  /\ Len(fetches) = 1

\* C18: every call that fails settles with an error that has a status and a
\* message.
C18_StructuredError ==
  (settled # <<>> /\ ~settled[1].res.ok) =>
    {"status", "message"} \subseteq DOMAIN settled[1].res.error

\* C19: the error of a non-2xx answer has the status of the answer; its
\* message is the error field of the JSON body, else the message field of
\* that body, and the statusText of the answer when the body is not JSON.
C19_MessageDerived ==
  (/\ settled # <<>>
   /\ settled[1].outcome.kind = "response"
   /\ settled[1].outcome.status \notin 200..299) =>
    LET o == settled[1].outcome
        error == settled[1].res.error
    IN /\ ~settled[1].res.ok
       /\ "status" \in DOMAIN error
       /\ error.status = o.status
       /\ o.body = <<>> => error.message = o.statusText
       /\ (o.body # <<>> /\ Truthy(o.body[1], "error")) =>
            error.message = o.body[1].error
       /\ (/\ o.body # <<>>
           /\ ~Truthy(o.body[1], "error")
           /\ Truthy(o.body[1], "message")) =>
            error.message = o.body[1].message

PostTest(testRequest) == [method |-> "POST", body |-> testRequest]

\* the state outside the API testing panel
trest == <<activeTab, qrest, cvars, svars, avars, created, lvars, pvars>>

\* ApiTestingPanel is mounted
InitTest ==
  /\ activeTab = "api"
  /\ QueryUnmounted
  /\ toast = <<>>
  /\ ev = Event("mount", FALSE, "none", <<>>)
  /\ TestUnmounted
  /\ ConfigUnmounted
  /\ SourcesUnmounted
  /\ ClientIdle
  /\ created = <<>>
  /\ LogsUnmounted
  /\ PageIdle

\* the send button: disabled={testMutation.isPending}
SendDisabled == testStatus = "pending"

\* {response && (...)}: the response container
ResponseShown == response # <<>>

\* two of the endpoints, and the methods, that can be selected
EndpointOptions == {"/ask", "/health"}
Methods == {"GET", "POST"}

\* the texts the headers box is given: an object, a number, a malformed text
HeaderTexts == {ObjectText, <<"1">>, <<"{">>}

\* the bodies POST /test answers with
TestResponses ==
  {[status |-> 200, body |-> JsonObject],
   [status |-> 404, body |-> JsonNumber(1)]}

\* the Select's onValueChange: the body box is given the example body of
\* the endpoint
handleEndpointChange(newEndpoint) ==
  /\ activeTab = "api"
  /\ newEndpoint # endpointSel
  /\ endpointSel' = newEndpoint
  /\ requestBody' = ObjectText
  /\ toast' = <<>>
  /\ ev' = Event("handleEndpointChange", FALSE, "none", <<>>)
  /\ UNCHANGED <<method, headers, response, tnet, testStatus, trest>>

\* the onChange of a method radio button
setMethod(value) ==
  /\ activeTab = "api"
  /\ value # method
  /\ method' = value
  /\ toast' = <<>>
  /\ ev' = Event("setMethod", FALSE, "none", <<>>)
  /\ UNCHANGED <<endpointSel, headers, requestBody, response, tnet,
                 testStatus, trest>>

\* the onChange of the headers box
setHeaders(text) ==
  /\ activeTab = "api"
  /\ headers' = text
  /\ toast' = <<>>
  /\ ev' = Event("setHeaders", FALSE, "none", <<>>)
  /\ UNCHANGED <<endpointSel, method, requestBody, response, tnet,
                 testStatus, trest>>

\* the onChange of the body box
setRequestBody(text) ==
  /\ activeTab = "api"
  /\ requestBody' = text
  /\ toast' = <<>>
  /\ ev' = Event("setRequestBody", FALSE, "none", <<>>)
  /\ UNCHANGED <<endpointSel, method, headers, response, tnet, testStatus,
                 trest>>

InvalidJsonToast ==
  <<[title |-> "Invalid JSON",
     description |-> "Please check your headers and request body formatting",
     variant |-> "destructive"]>>

handleSendRequestBodyOnly ==
  /\ activeTab = "api"
  /\ ~SendDisabled
  /\ LET parsedHeaders == JSONparse(headers)
         parsedBody == JSONparse(requestBody)
     IN IF parsedBody = <<>>
        THEN /\ toast' = InvalidJsonToast
             /\ UNCHANGED <<tnet, testStatus>>
        ELSE /\ tnet' = tnet (+) SetToBag({PostTest(
                          [endpoint |-> endpointSel, method |-> method,
                           headers |-> IF parsedHeaders = <<>> THEN JsonObject
                                       ELSE parsedHeaders[1],
                           body |-> parsedBody[1]])})
             /\ testStatus' = "pending"
             /\ toast' = <<>>
  /\ ev' = Event("handleSendRequest", FALSE, "none", <<>>)
  /\ UNCHANGED <<endpointSel, method, headers, requestBody, response, trest>>

\* a click on the send button: both texts are parsed, and the request is
\* made only if neither JSON.parse throws
handleSendRequest ==
  /\ activeTab = "api"
  /\ ~SendDisabled
  /\ LET parsedHeaders == JSONparse(headers)
         parsedBody == JSONparse(requestBody)
     IN IF parsedHeaders = <<>> \/ parsedBody = <<>>
        THEN /\ toast' = InvalidJsonToast
             /\ UNCHANGED <<tnet, testStatus>>
        ELSE /\ tnet' = tnet (+) SetToBag({PostTest(
                          [endpoint |-> endpointSel, method |-> method,
                           headers |-> parsedHeaders[1],
                           body |-> parsedBody[1]])})
             /\ testStatus' = "pending"
             /\ toast' = <<>>
  /\ ev' = Event("handleSendRequest", FALSE, "none", <<>>)
  /\ UNCHANGED <<endpointSel, method, headers, requestBody, response, trest>>

\* `Response received with status ${data.status}`
ReceivedText(data) ==
  IF data.status = 200 THEN "Response received with status 200"
  ELSE "Response received with status 404"

\* testMutation.onSuccess for the request r
onTestSuccess(r, data) ==
  /\ tnet' = tnet (-) SetToBag({r})
  /\ response' = <<data>>
  /\ toast' = <<[title |-> "API Test Successful",
                 description |-> ReceivedText(data), variant |-> "default"]>>
  /\ testStatus' = "success"
  /\ UNCHANGED <<endpointSel, method, headers, requestBody, trest>>

onTestErrorClears(r, error) ==
  /\ tnet' = tnet (-) SetToBag({r})
  /\ response' = <<>>
  /\ toast' = <<[title |-> "API Test Failed", description |-> error.message,
                 variant |-> "destructive"]>>
  /\ testStatus' = "error"
  /\ UNCHANGED <<endpointSel, method, headers, requestBody, trest>>

\* testMutation.onError for the request r
onTestError(r, error) ==
  /\ tnet' = tnet (-) SetToBag({r})
  /\ toast' = <<[title |-> "API Test Failed", description |-> error.message,
                 variant |-> "destructive"]>>
  /\ testStatus' = "error"
  /\ UNCHANGED <<endpointSel, method, headers, requestBody, response, trest>>

\* the promise of api.testEndpoint settles with a value; the event records
\* the value
TestResolves ==
  \E r \in BagToSet(tnet), data \in TestResponses :
    /\ onTestSuccess(r, data)
    /\ ev' = Event("onTestSuccess", FALSE, "json", <<>>) @@ [data |-> <<data>>]

\* the promise of api.testEndpoint settles with an error
TestRejects ==
  \E r \in BagToSet(tnet), s \in Settlements :
    /\ ~s.res.ok
    /\ onTestError(r, s.res.error)
    /\ ev' = Event("onTestError", FALSE, s.kind, <<s.res.error>>)

\* a click on the copy button, which is rendered with the response
handleCopyResponse ==
  /\ activeTab = "api"
  /\ response # <<>>
  /\ toast' = <<[title |-> "Copied",
                 description |-> "Response copied to clipboard",
                 variant |-> "default"]>>
  /\ ev' = Event("handleCopyResponse", FALSE, "none", <<>>)
  /\ UNCHANGED <<tvars, trest>>

NextTest ==
  \/ \E e \in EndpointOptions : handleEndpointChange(e)
  \/ \E m \in Methods : setMethod(m)
  \/ \E t \in HeaderTexts : setHeaders(t)
  \/ \E t \in JsonTexts(MaxJson) : setRequestBody(t)
  \/ handleSendRequest
  \/ TestResolves
  \/ TestRejects
  \/ handleCopyResponse

SpecTest == InitTest /\ [][NextTest]_vars

\* the /test requests in flight
TestsInFlight == BagCardinality(tnet)

\* C21: a click on Send with a headers text or a body text that JSON.parse
\* rejects issues no request and leaves the stored response as it is; a
\* click with two texts that parse adds exactly one POST /test that carries
\* the selected endpoint, the selected method and the two parsed values as
\* they are, whatever they are; and no other step issues a request.
C21_OnlyWellFormed ==
  [][IF ev'.name = "handleSendRequest"
     THEN IF JSONparse(headers) = <<>> \/ JSONparse(requestBody) = <<>>
          THEN tnet' = tnet /\ response' = response
          ELSE /\ tnet' = tnet (+) SetToBag({PostTest(
                            [endpoint |-> endpointSel, method |-> method,
                             headers |-> JSONparse(headers)[1],
                             body |-> JSONparse(requestBody)[1]])})
               /\ TestsInFlight' = TestsInFlight + 1
               /\ response' = response
     ELSE TestsInFlight' <= TestsInFlight]_vars

\* a click on Send with a malformed text has been rejected while a response
\* was stored
C21_Witness ==
  /\ ev.name = "handleSendRequest"
  /\ toast = InvalidJsonToast
  /\ JSONparse(headers) = <<>>
  /\ response # <<>>
  /\ tnet = EmptyBag

\* C30: the stored response changes only in onSuccess of a test, which
\* stores the response it was given; so the response stored, and shown while
\* a newer request is pending and after a newer request has failed, is that
\* of the most recent successful test.
C30_LastSuccess ==
  [][/\ response' # response => ev'.name = "onTestSuccess"
     /\ ev'.name = "onTestSuccess" => response' = ev'.data
     /\ response' # <<>> /\ testStatus' \in {"pending", "error"}
          => ResponseShown']_vars

\* a test has failed after an earlier one succeeded, and the response of the
\* earlier one is stored
C30_Witness ==
  /\ ev.name = "onTestError"
  /\ testStatus = "error"
  /\ response # <<>>

\* ----------------------------------------------------- the system logs panel
\* String.prototype.toLowerCase over the letters the texts are made of
toLowerCase(s) ==
  [i \in DOMAIN s |->
     CASE s[i] = "A" -> "a" [] s[i] = "B" -> "b" [] s[i] = "E" -> "e"
       [] s[i] = "I" -> "i" [] s[i] = "N" -> "n" [] OTHER -> s[i]]

\* String.prototype.includes
includes(s, t) ==
  \E i \in 0..(Len(s) - Len(t)) : SubSeq(s, i + 1, i + Len(t)) = t

\* the entries GET /logs answers with (the timestamp is left out): the
\* levels ERROR and INFO, the sources nlweb and NLWEB
LogEntries ==
  {[level |-> <<"E">>, source |-> <<"n">>, message |-> <<"A", "b">>],
   [level |-> <<"E">>, source |-> <<"N">>, message |-> <<"b">>],
   [level |-> <<"I">>, source |-> <<"n">>, message |-> <<"b">>],
   [level |-> <<"I">>, source |-> <<"N">>, message |-> <<"A", "b">>]}
LogLists(n) == UNION {[1..k -> LogEntries] : k \in 0..n}

\* the values of the selects ("all", "error", "info"; "all", "nlweb",
\* "openai") and the texts the search box is given
LevelOptions == {AllText, <<"e">>, <<"i">>}
SourceOptions == {AllText, <<"n">>, <<"o">>}
SearchTerms == {<<>>, <<"a">>, <<"B">>, <<"b", "a">>}

keepExactLevel(log) ==
  IF levelFilter # AllText /\ log.level # levelFilter THEN FALSE
  ELSE IF sourceFilter # AllText /\ log.source # sourceFilter THEN FALSE
  ELSE IF /\ searchTerm # <<>>
          /\ ~includes(toLowerCase(log.message), toLowerCase(searchTerm))
  THEN FALSE
  ELSE TRUE

\* the callback of filter
keep(log) ==
  IF /\ levelFilter # AllText
     /\ toLowerCase(log.level) # toLowerCase(levelFilter)
  THEN FALSE
  ELSE IF sourceFilter # AllText /\ log.source # sourceFilter THEN FALSE
  ELSE IF /\ searchTerm # <<>>
          /\ ~includes(toLowerCase(log.message), toLowerCase(searchTerm))
  THEN FALSE
  ELSE TRUE

\* Array.prototype.filter with that callback: a new array of the entries
\* kept, in order
RECURSIVE filter(_)
filter(logs) ==
  IF logs = <<>> THEN <<>>
  ELSE IF keep(Head(logs)) THEN <<Head(logs)>> \o filter(Tail(logs))
  ELSE filter(Tail(logs))

\* logsData?.logs?.filter(...) || []
filteredLogs == IF logsData = <<>> THEN <<>> ELSE filter(logsData[1].logs)

\* the state outside the logs panel
lrest == <<activeTab, qrest, cvars, svars, avars, created, tvars, orphans>>

\* SystemLogsPanel is mounted: its useQuery has issued GET /logs
InitLogs ==
  /\ activeTab = "logs"
  /\ QueryUnmounted
  /\ toast = <<>>
  /\ ev = Event("mount", FALSE, "none", <<>>)
  /\ LogsUnmounted
  /\ polls = {"logs"}
  /\ orphans = EmptyBag
  /\ ConfigUnmounted
  /\ SourcesUnmounted
  /\ ClientIdle
  /\ created = <<>>
  /\ TestUnmounted

\* the onValueChange of the level select
setLevelFilter(value) ==
  /\ activeTab = "logs"
  /\ value # levelFilter
  /\ levelFilter' = value
  /\ toast' = <<>>
  /\ ev' = Event("setLevelFilter", FALSE, "none", <<>>)
  /\ UNCHANGED <<logsData, sourceFilter, searchTerm, autoRefresh, polls, lrest>>

\* the onValueChange of the source select
setSourceFilter(value) ==
  /\ activeTab = "logs"
  /\ value # sourceFilter
  /\ sourceFilter' = value
  /\ toast' = <<>>
  /\ ev' = Event("setSourceFilter", FALSE, "none", <<>>)
  /\ UNCHANGED <<logsData, levelFilter, searchTerm, autoRefresh, polls, lrest>>

\* the onChange of the search box
setSearchTerm(text) ==
  /\ activeTab = "logs"
  /\ searchTerm' = text
  /\ toast' = <<>>
  /\ ev' = Event("setSearchTerm", FALSE, "none", <<>>)
  /\ UNCHANGED <<logsData, levelFilter, sourceFilter, autoRefresh, polls,
                 lrest>>

\* the onCheckedChange of the checkbox: setAutoRefresh(!!checked)
setAutoRefresh(checked) ==
  /\ activeTab = "logs"
  /\ checked # autoRefresh
  /\ autoRefresh' = checked
  /\ toast' = <<>>
  /\ ev' = Event("setAutoRefresh", FALSE, "none", <<>>)
  /\ UNCHANGED <<logsData, levelFilter, sourceFilter, searchTerm, polls,
                 lrest>>

\* a click on Export Logs: a download is started when there are logs
handleExportLogs ==
  /\ activeTab = "logs"
  /\ toast' = IF logsData # <<>>
              THEN <<[title |-> "Logs Exported",
                      description |-> "System logs have been downloaded",
                      variant |-> "default"]>>
              ELSE <<>>
  /\ ev' = Event("handleExportLogs", FALSE, "none", <<>>)
  /\ UNCHANGED <<lvars, polls, lrest>>

\* a click on Clear Logs
handleClearLogs ==
  /\ activeTab = "logs"
  /\ toast' = <<[title |-> "Clear Logs",
                 description |->
                   "This would clear the system logs (demo mode)",
                 variant |-> "destructive"]>>
  /\ ev' = Event("handleClearLogs", FALSE, "none", <<>>)
  /\ UNCHANGED <<lvars, polls, lrest>>

LogsTickAlways ==
  /\ activeTab = "logs"
  /\ "logs" \notin polls
  /\ polls' = polls \cup {"logs"}
  /\ toast' = <<>>
  /\ ev' = Event("refetchInterval", FALSE, "none", <<>>)
  /\ UNCHANGED <<lvars, lrest>>

\* refetchInterval: autoRefresh ? 5000 : false of the ["logs"] query: the
\* query fetches unless it is fetching
LogsTick ==
  /\ activeTab = "logs"
  /\ autoRefresh
  /\ "logs" \notin polls
  /\ polls' = polls \cup {"logs"}
  /\ toast' = <<>>
  /\ ev' = Event("refetchInterval", FALSE, "none", <<>>)
  /\ UNCHANGED <<lvars, lrest>>

\* the promise of api.getLogs settles: with the logs, which become the data
\* of the query, or with an error, which leaves the data as they are
LogsSettles(ok, logs) ==
  /\ "logs" \in polls
  /\ polls' = polls \ {"logs"}
  /\ logsData' = IF ok THEN <<[logs |-> logs]>> ELSE logsData
  /\ toast' = <<>>
  /\ ev' = Event("getLogsSettled", FALSE, IF ok THEN "json" ELSE "status",
                 <<>>)
  /\ UNCHANGED <<levelFilter, sourceFilter, searchTerm, autoRefresh, lrest>>

NextLogs ==
  \/ \E v \in LevelOptions : setLevelFilter(v)
  \/ \E v \in SourceOptions : setSourceFilter(v)
  \/ \E t \in SearchTerms : setSearchTerm(t)
  \/ \E b \in BOOLEAN : setAutoRefresh(b)
  \/ handleExportLogs
  \/ handleClearLogs
  \/ LogsTick
  \/ \E ok \in BOOLEAN, logs \in LogLists(MaxLogs) : LogsSettles(ok, logs)

SpecLogs == InitLogs /\ [][NextLogs]_vars

\* the log list fetched last
FetchedLogs == IF logsData = <<>> THEN <<>> ELSE logsData[1].logs

\* C25: the list displayed is the subsequence, in the order fetched, of
\* exactly the fetched entries whose level is the selected one up to case
\* (or any, with "all"), whose source is the selected one exactly (or any,
\* with "all") and whose message holds the search term up to case; with
\* "all", "all" and an empty search term it is the fetched list; and a
\* change of a filter leaves the fetched list as it is.
C25_FilterExact ==
  /\ [](LET Satisfies(log) ==
              /\ \/ levelFilter = AllText
                 \/ toLowerCase(log.level) = toLowerCase(levelFilter)
              /\ sourceFilter = AllText \/ log.source = sourceFilter
              /\ includes(toLowerCase(log.message), toLowerCase(searchTerm))
         IN /\ filteredLogs = SelectSeq(FetchedLogs, Satisfies)
            /\ levelFilter = AllText /\ sourceFilter = AllText
                 /\ searchTerm = <<>> => filteredLogs = FetchedLogs)
  /\ [][ev'.name \in {"setLevelFilter", "setSourceFilter", "setSearchTerm"}
          => logsData' = logsData]_vars

\* two entries were fetched and the three filters keep the second only
C25_Witness ==
  /\ Len(FetchedLogs) = 2
  /\ levelFilter = <<"e">>
  /\ sourceFilter = <<"n">>
  /\ searchTerm = <<"B">>
  /\ filteredLogs = <<FetchedLogs[2]>>

\* C26: neither a submission nor onError writes the results; while a request
\* of the mounted instance is pending the results change only by its
\* onSuccess or by the unmount of the panel; so when the pipeline goes from
\* Submitting to Failed the results held are those held when the submission
\* was made, and they are displayed if there are any.
C26_FailureKeepsResults ==
  [][/\ ev'.name \in {"handleSubmit", "onError"} => results' = results
     /\ status = "pending" /\ results' # results
          => \/ ev'.name = "onSuccess" /\ ~ev'.stale
             \/ activeTab' # activeTab
     /\ status = "pending" /\ status' = "error"
          => /\ ev'.name = "onError"
             /\ results' = results
             /\ results' # <<>> => ResultsShown']_vars

\* a query of the mounted instance has failed after an earlier one
\* succeeded, and the earlier results are held
C26_Witness ==
  /\ ev.name = "onError"
  /\ ~ev.stale
  /\ status = "error"
  /\ results # <<>>

\* C27: when the config refetched after a successful save that changed a
\* section on the server arrives, and it is the config the server holds, the
\* local config is replaced by it, so an unsaved edit of another section is
\* gone.
C27_UnsavedEditsLost ==
  [][/\ ev.name = "onSaveSuccess"
     /\ ev.changed
     /\ ev'.name = "getConfigResolved"
     /\ configData' = <<server>>
     => config' = <<server>>]_vars

\* the number of POST /config requests in flight
SaveCount == BagCardinality(cnet) - (IF GetConfig \in BagToSet(cnet) THEN 1 ELSE 0)

\* C28: at most one POST /config of the panel is in flight, and while one is
\* the save buttons of all three sections are disabled, so a click on any
\* of them issues no request; and no POST /config is issued while the config
\* is not loaded.
C28_SavesSerialized ==
  /\ [](/\ SaveCount <= 1
        /\ SaveCount = 1 => SaveDisabled
        /\ config = <<>> => SaveCount = 0)
  /\ [][/\ SaveDisabled => SaveCount' <= SaveCount
        /\ config = <<>> => SaveCount' = 0]_vars

\* a section is being saved while another section has an unsaved edit
C28_Witness ==
  /\ SaveCount = 1
  /\ SaveDisabled
  /\ \E r \in SavesInFlight :
       \E s \in Sections \ DOMAIN r.body : config[1][s] # server[s]

\* the number of POST /data-sources requests in flight
AddCount == BagCardinality(snet) - (IF GetStats \in BagToSet(snet) THEN 1 ELSE 0)

\* C29: a click on the add button with an empty name or an empty url issues
\* no request and leaves the dialog and the form as they are; onSuccess of
\* an add closes the dialog, resets the form to its initial values and has
\* the stats refetched; onError of an add leaves the dialog and the form as
\* they are; and at most one add request is in flight.
C29_AddOutcomes ==
  /\ [](AddCount <= 1)
  /\ [][/\ /\ ev'.name = "handleAddSource"
           /\ newSource.name = <<>> \/ newSource.url = <<>>
           => /\ snet' = snet
              /\ showAddDialog' = showAddDialog
              /\ newSource' = newSource
        /\ ev'.name = "onAddSuccess"
           => /\ ~showAddDialog'
              /\ newSource' = [name |-> <<>>, url |-> <<>>,
                               type |-> "schema_org", description |-> ""]
              /\ GetStats \in BagToSet(snet')
        /\ ev'.name = "onAddError"
           => /\ showAddDialog' = showAddDialog
              /\ newSource' = newSource
              /\ AddCount' = 0]_vars

\* an add has failed: the dialog is open and the form holds what was entered
C29_Witness ==
  /\ ev.name = "onAddError"
  /\ addStatus = "error"
  /\ showAddDialog
  /\ newSource.name # <<>>
  /\ newSource.url # <<>>

\* C24: every add request carries name, url, type and description and
\* nothing else; the data source the server creates for it has status
\* inactive and object_count 0; afterwards its status moves only from
\* inactive to syncing and from syncing to active or error, each move made
\* by the ingestion; and no step of the client changes it.
C24_Lifecycle ==
  /\ [](\A r \in AddsInFlight :
          DOMAIN r.body = {"name", "url", "type", "description"})
  /\ [][created' # created
        => \/ /\ ev'.name = "onAddSuccess"
              /\ created' = <<[status |-> "inactive", object_count |-> 0]>>
           \/ /\ ev'.name = "ingestion"
              /\ created # <<>>
              /\ <<created[1].status, created'[1].status>> \in
                   {<<"inactive", "syncing">>, <<"syncing", "active">>,
                    <<"syncing", "error">>}]_vars

\* a data source was created, the ingestion has made it active, and the
\* panel has another add request in flight
C24_Witness ==
  /\ created # <<>>
  /\ created[1].status = "active"
  /\ AddsInFlight # {}

\* ------------------------------------------------------------------ the page
\* DemoAgent with its five panels, of which the one of activeTab is mounted.
\* The inputs are few: one text, one edit, one answer of each request.

\* DemoAgent is mounted with the query interface: the ["health"] and
\* ["stats"] queries of the page have issued their first fetch
InitPage ==
  /\ InitQuery
  /\ vin = <<>>
  /\ vout = <<>>
  /\ ConfigUnmounted
  /\ newSource = EmptySource
  /\ showAddDialog = FALSE
  /\ snet = SetToBag({GetStats})
  /\ addStatus = "idle"
  /\ statsStatus = "pending"
  /\ ClientIdle
  /\ created = <<>>
  /\ TestUnmounted
  /\ LogsUnmounted
  /\ polls = {"health"}
  /\ orphans = EmptyBag

\* the POST requests in a bag of requests
Posts(b) == {r \in BagToSet(b) : r.method = "POST"}

\* the POST requests of the mounted panel, each with its panel
Leaving ==
  {[panel |-> "config", body |-> r.body] : r \in Posts(cnet)}
  \cup {[panel |-> "schema", body |-> r.body] : r \in Posts(snet)}
  \cup {[panel |-> "api", body |-> r.body] : r \in Posts(tnet)}

switchTabHidden(tab, kept, refetch) ==
  /\ tab # activeTab
  /\ activeTab' = tab
  /\ toast' = <<>>
  /\ ev' = Event("setActiveTab", FALSE, "none", <<>>)
  /\ UNCHANGED <<query, results, status, net, vin, vout, ovars>>

\* a click on a navigation button, setActiveTab(tab.id), with every panel in
\* view.  The panel of the old tab is unmounted: its state is gone, its
\* mutations' requests stay in flight without it, and the fetches of its
\* queries go on.  The panel of the new tab is mounted with its initial
\* state: a query of it that has no data fetches, one that has data in the
\* cache shows them and fetches if the data are stale (refetch).  The data of
\* a query without observer are kept or have been collected; the ["stats"]
\* query always has the page as its observer.  Fewer than MaxNet requests
\* are left without their panel.
switchTab(tab, kept, refetch) ==
  /\ tab # activeTab
  /\ BagCardinality(Orphaned) + BagCardinality(orphans) + Cardinality(Leaving)
       < MaxNet
  /\ activeTab' = tab
  /\ query' = <<>>
  /\ results' = <<>>
  /\ status' = "idle"
  /\ net' = Orphaned
  /\ orphans' = orphans (+) SetToBag(Leaving)
  /\ LET fetching == GetConfig \in BagToSet(cnet)
         cached == IF kept \/ fetching THEN configData ELSE <<>>
     IN /\ configData' = cached
        /\ config' = IF tab = "config" THEN cached ELSE <<>>
        /\ cnet' = IF fetching \/ (tab = "config" /\ (cached = <<>> \/ refetch))
                   THEN SetToBag({GetConfig}) ELSE EmptyBag
  /\ saveStatus' = "idle"
  /\ newSource' = EmptySource
  /\ showAddDialog' = FALSE
  /\ addStatus' = "idle"
  /\ snet' = IF GetStats \in BagToSet(snet) \/ (tab = "schema" /\ refetch)
             THEN SetToBag({GetStats}) ELSE EmptyBag
  /\ endpointSel' = "/ask"
  /\ method' = "POST"
  /\ headers' = ObjectText
  /\ requestBody' = ObjectText
  /\ response' = <<>>
  /\ tnet' = EmptyBag
  /\ testStatus' = "idle"
  /\ levelFilter' = AllText
  /\ sourceFilter' = AllText
  /\ searchTerm' = <<>>
  /\ autoRefresh' = TRUE
  /\ LET cached == IF kept \/ "logs" \in polls THEN logsData ELSE <<>>
     IN /\ logsData' = cached
        /\ polls' = IF tab = "logs" /\ (cached = <<>> \/ refetch)
                    THEN polls \cup {"logs"} ELSE polls
  /\ toast' = <<>>
  /\ ev' = Event("setActiveTab", FALSE, "none", <<>>)
  /\ UNCHANGED <<vin, vout, server, statsStatus, avars, created>>

\* what the answer to a request of an unmounted panel leaves as it is: the
\* state setters of the unmounted panel do nothing
orest ==
  <<activeTab, qrest, config, configData, saveStatus, newSource, showAddDialog,
    addStatus, statsStatus, avars, tvars, lvars, polls>>

\* the promise of api.updateConfig of an unmounted panel settles with a
\* value: the server has applied the body, and updateConfigMutation.onSuccess
\* invalidates ["config"], which refetches if the panel is mounted again,
\* and toasts
OrphanSaveResolves(o) ==
  /\ o \in BagToSet(orphans)
  /\ o.panel = "config"
  /\ orphans' = orphans (-) SetToBag({o})
  /\ server' = postConfig(server, o.body)
  /\ cnet' = IF activeTab = "config" THEN invalidateConfig(cnet) ELSE cnet
  /\ toast' = <<[title |-> "Configuration Saved",
                 description |-> "Settings have been updated successfully",
                 variant |-> "default"]>>
  /\ ev' = Event("onSaveSuccess", TRUE, "json", <<>>)
  /\ UNCHANGED <<snet, created, orest>>

\* the promise of api.updateConfig of an unmounted panel settles with an
\* error: updateConfigMutation.onError toasts
OrphanSaveRejects(o, error) ==
  /\ o \in BagToSet(orphans)
  /\ o.panel = "config"
  /\ orphans' = orphans (-) SetToBag({o})
  /\ toast' = <<[title |-> "Save Failed", description |-> error.message,
                 variant |-> "destructive"]>>
  /\ ev' = Event("onSaveError", TRUE, "transport", <<error>>)
  /\ UNCHANGED <<server, cnet, snet, created, orest>>

\* the promise of api.addDataSource of an unmounted panel settles with a
\* value: the server has created the data source, and
\* addSourceMutation.onSuccess invalidates ["stats"], which the page
\* observes, and toasts
OrphanAddResolves(o) ==
  /\ o \in BagToSet(orphans)
  /\ o.panel = "schema"
  /\ dataSourceSchema(o.body).success
  /\ orphans' = orphans (-) SetToBag({o})
  /\ created' = createSource(o.body)
  /\ snet' = refetchStats(snet)
  /\ toast' = <<[title |-> "Data Source Added",
                 description |-> "The new data source is being indexed",
                 variant |-> "default"]>>
  /\ ev' = Event("onAddSuccess", TRUE, "json", <<>>)
  /\ UNCHANGED <<server, cnet, orest>>

\* the promise of api.addDataSource of an unmounted panel settles with an
\* error: addSourceMutation.onError toasts
OrphanAddRejects(o, error) ==
  /\ o \in BagToSet(orphans)
  /\ o.panel = "schema"
  /\ orphans' = orphans (-) SetToBag({o})
  /\ toast' = <<[title |-> "Failed to Add Source",
                 description |-> error.message, variant |-> "destructive"]>>
  /\ ev' = Event("onAddError", TRUE, "transport", <<error>>)
  /\ UNCHANGED <<server, cnet, snet, created, orest>>

\* the promise of api.testEndpoint of an unmounted panel settles with a
\* value: testMutation.onSuccess toasts
OrphanTestResolves(o, data) ==
  /\ o \in BagToSet(orphans)
  /\ o.panel = "api"
  /\ orphans' = orphans (-) SetToBag({o})
  /\ toast' = <<[title |-> "API Test Successful",
                 description |-> ReceivedText(data), variant |-> "default"]>>
  /\ ev' = Event("onTestSuccess", TRUE, "json", <<>>)
  /\ UNCHANGED <<server, cnet, snet, created, orest>>

\* the promise of api.testEndpoint of an unmounted panel settles with an
\* error: testMutation.onError toasts
OrphanTestRejects(o, error) ==
  /\ o \in BagToSet(orphans)
  /\ o.panel = "api"
  /\ orphans' = orphans (-) SetToBag({o})
  /\ toast' = <<[title |-> "API Test Failed", description |-> error.message,
                 variant |-> "destructive"]>>
  /\ ev' = Event("onTestError", TRUE, "transport", <<error>>)
  /\ UNCHANGED <<server, cnet, snet, created, orest>>

\* refetchInterval: 30000 of the ["health"] query of the page
HealthTick ==
  /\ "health" \notin polls
  /\ polls' = polls \cup {"health"}
  /\ toast' = <<>>
  /\ ev' = Event("refetchInterval", FALSE, "none", <<>>)
  /\ UNCHANGED <<lvars, lrest>>

\* the promise of api.getHealth settles; the page shows what it answered
HealthSettles ==
  /\ "health" \in polls
  /\ polls' = polls \ {"health"}
  /\ toast' = <<>>
  /\ ev' = Event("getHealthSettled", FALSE, "none", <<>>)
  /\ UNCHANGED <<lvars, lrest>>

\* refetchInterval: 60000 of the ["stats"] query of the page
PageStatsTick ==
  /\ GetStats \notin BagToSet(snet)
  /\ snet' = refetchStats(snet)
  /\ toast' = <<>>
  /\ ev' = Event("refetchInterval", FALSE, "none", <<>>)
  /\ UNCHANGED <<activeTab, qrest, newSource, showAddDialog, addStatus,
                 statsStatus, cvars, avars, created, xvars>>

\* the one answer and the one error of a request, the one text and the one
\* URL typed
OneResponse ==
  [type |-> "SearchResultsPage", mainEntity |-> <<>>, numberOfItems |-> 0]
OneError == apiRequest([kind |-> "reject"]).error
OneText == <<"a">>
OneUrl == <<"a", ":">>

\* the promise of api.ask settles
AskSettles ==
  \E r \in BagToSet(net) :
    \/ /\ onSuccess(r, OneResponse)
       /\ ev' = Event("onSuccess", ~r.live, "json", <<>>)
    \/ /\ onError(r, OneError)
       /\ ev' = Event("onError", ~r.live, "transport", <<OneError>>)

\* Switching between the tabs: the handlers of the query interface, the
\* API testing panel and the data source panel, and the queries of the
\* configuration panel and of the page.
NextTabs ==
  \/ \E tab \in Tabs, kept \in BOOLEAN, refetch \in BOOLEAN :
       switchTab(tab, kept, refetch)
  \/ \E o \in BagToSet(orphans) : OrphanSaveResolves(o)
  \/ \E o \in BagToSet(orphans) : OrphanSaveRejects(o, OneError)
  \/ \E o \in BagToSet(orphans) : OrphanAddResolves(o)
  \/ \E o \in BagToSet(orphans) : OrphanAddRejects(o, OneError)
  \/ \E o \in BagToSet(orphans), data \in TestResponses :
       OrphanTestResolves(o, data)
  \/ \E o \in BagToSet(orphans) : OrphanTestRejects(o, OneError)
  \/ StatsSettles
  \/ ConfigResolves
  \/ handleSave("openai")
  \/ SaveResolves
  \/ setQuery(OneText)
  \/ handleSubmit
  \/ AskSettles
  \/ setShowAddDialog(TRUE)
  \/ setNewSource("name", OneText)
  \/ setNewSource("url", OneUrl)
  \/ handleAddSource
  \/ AddResolves
  \/ handleSendRequest
  \/ TestResolves

SpecTabs == InitPage /\ [][NextTabs]_vars

\* DemoAgent right after a first click on a navigation button, or without
\* one: the panel of some tab is mounted and its queries have issued their
\* first fetch
InitPolling ==
  /\ activeTab \in Tabs
  /\ query = <<>>
  /\ results = <<>>
  /\ status = "idle"
  /\ net = EmptyBag
  /\ toast = <<>>
  /\ ev = Event("mount", FALSE, "none", <<>>)
  /\ vin = <<>>
  /\ vout = <<>>
  /\ config = <<>>
  /\ configData = <<>>
  /\ server = ServerConfig
  /\ cnet = IF activeTab = "config" THEN SetToBag({GetConfig}) ELSE EmptyBag
  /\ saveStatus = "idle"
  /\ newSource = EmptySource
  /\ showAddDialog = FALSE
  /\ snet = SetToBag({GetStats})
  /\ addStatus = "idle"
  /\ statsStatus = "pending"
  /\ ClientIdle
  /\ created = <<>>
  /\ TestUnmounted
  /\ LogsUnmounted
  /\ polls = IF activeTab = "logs" THEN {"health", "logs"} ELSE {"health"}
  /\ orphans = EmptyBag

\* The background refreshes next to the handlers of the mounted panel.
NextPolling ==
  \/ HealthTick
  \/ HealthSettles
  \/ PageStatsTick
  \/ StatsTick
  \/ StatsSettles
  \/ LogsTick
  \/ LogsSettles(TRUE, <<>>)
  \/ \E b \in BOOLEAN : setAutoRefresh(b)
  \/ setQuery(OneText)
  \/ handleSubmit
  \/ AskSettles
  \/ ConfigResolves
  \/ setConfig("openai", "temperature", 10)
  \/ handleSave("openai")
  \/ SaveResolves
  \/ setShowAddDialog(TRUE)
  \/ setNewSource("name", OneText)
  \/ setNewSource("url", OneUrl)
  \/ handleAddSource
  \/ AddResolves
  \/ handleSendRequest
  \/ TestResolves

SpecPolling == InitPolling /\ [][NextPolling]_vars

\* the state of the query, config-save, add-source and API-test pipelines
PipelineState ==
  <<query, results, status, net, config, saveStatus, Posts(cnet), newSource,
    showAddDialog, addStatus, Posts(snet), tvars, orphans>>

\* C22: a periodic refresh issues nothing but a GET of the health, stats or
\* logs query and leaves the server's state and the state of the query,
\* config-save, add-source and API-test pipelines as they are, and so does
\* the arrival of its answer; the logs refresh fires only while auto-refresh
\* is enabled.
C22_PollingReadOnly ==
  [][/\ ev'.name = "refetchInterval"
          => /\ PipelineState' = PipelineState
             /\ server' = server
             /\ created' = created
             /\ cnet' = cnet
             /\ snet' \in {snet, snet (+) SetToBag({GetStats})}
             /\ polls \subseteq polls'
             /\ polls' \subseteq {"health", "logs"}
     /\ ev'.name \in {"getHealthSettled", "getStatsSettled", "getLogsSettled"}
          => /\ PipelineState' = PipelineState
             /\ server' = server
             /\ created' = created
     /\ "logs" \in polls' \ polls
          => autoRefresh /\ ev'.name = "refetchInterval"]_vars

\* a refresh has fired while a query and the fetch of the health are in
\* flight
C22_Witness ==
  /\ ev.name = "refetchInterval"
  /\ status = "pending"
  /\ net # EmptyBag
  /\ "health" \in polls
  /\ GetStats \in BagToSet(snet)

\* the state of the panel of a tab as it is before a mount and after an
\* unmount
Unmounted(tab) ==
  CASE tab = "query" ->
         /\ query = <<>>
         /\ results = <<>>
         /\ status = "idle"
         /\ \A r \in BagToSet(net) : ~r.live
    [] tab = "config" ->
         config = <<>> /\ saveStatus = "idle" /\ Posts(cnet) = {}
    [] tab = "schema" ->
         /\ newSource = EmptySource
         /\ ~showAddDialog
         /\ addStatus = "idle"
         /\ Posts(snet) = {}
    [] tab = "api" ->
         /\ endpointSel = "/ask"
         /\ method = "POST"
         /\ headers = ObjectText
         /\ requestBody = ObjectText
         /\ response = <<>>
         /\ testStatus = "idle"
         /\ tnet = EmptyBag
    [] OTHER ->
         /\ levelFilter = AllText
         /\ sourceFilter = AllText
         /\ searchTerm = <<>>
         /\ autoRefresh

\* every panel is in its initial state, the configuration panel with no
\* config or with the config the query holds
AllFresh ==
  /\ \A tab \in Tabs \ {"config"} : Unmounted(tab)
  /\ config \in {<<>>, configData}
  /\ saveStatus = "idle"
  /\ Posts(cnet) = {}

\* the state the components hold
ComponentState ==
  <<query, results, status, config, saveStatus, newSource, showAddDialog,
    addStatus, endpointSel, method, headers, requestBody, response, testStatus,
    levelFilter, sourceFilter, searchTerm, autoRefresh>>

\* C23 as stated: after a switch of tab every panel is in its initial state
\* and nothing received before the switch is held by the client: the
\* queries of the stats, the config and the logs hold no data.
C23_NothingPersists ==
  [][activeTab' # activeTab
       => /\ AllFresh'
          /\ statsStatus' = "pending"
          /\ configData' = <<>>
          /\ logsData' = <<>>]_vars

\* C23: the panels of the tabs other than the active one are unmounted; a
\* switch of tab leaves every panel in its initial state, so the query
\* interface starts again with empty text and no results, the API testing
\* panel with no response and the add-source form closed and empty; and an
\* answer to a request of an unmounted panel writes no component state.
C23_SwitchResets ==
  /\ [](\A tab \in Tabs \ {activeTab} : Unmounted(tab))
  /\ [][/\ activeTab' # activeTab => AllFresh'
        /\ ev'.stale => ComponentState' = ComponentState]_vars

\* the API testing panel is mounted again while a request of its earlier
\* instance is in flight, and holds no response
C23_Witness ==
  /\ ev.name = "setActiveTab"
  /\ activeTab = "api"
  /\ \E o \in BagToSet(orphans) : o.panel = "api"
  /\ response = <<>>
  /\ statsStatus = "success"

====
